---- MODULE Spec2Model ----
(***************************************************************************)
(* A model of infinitode.py: the Session facade (src/infinitode/core.py),  *)
(* its argument validation and cooldown cache, the expiring cache          *)
(* decorator (src/infinitode/utils.py), and the Score, Leaderboard and     *)
(* Player objects (score.py, leaderboard.py, player.py).                   *)
(*                                                                         *)
(* Eight specifications share the module:                                  *)
(*   SpecKwarg     Session._kwarg_check applied to bounded inputs          *)
(*   SpecCache     async_expiring_cache: wrapper calls, tasks and waiters  *)
(*   Spec          concurrent Session operations against the cooldown      *)
(*                 cache                                                   *)
(*   SpecDispatch  every Session operation, one call at a time, over a     *)
(*                 wide input set                                          *)
(*   SpecScore     the Score constructor applied to bounded inputs         *)
(*   SpecScope     close() and the "async with" scope of a Session         *)
(*   SpecPlayer    the lazily fetched scores of a Player                   *)
(*   SpecBoard     Leaderboard construction, slicing and appending         *)
(***************************************************************************)
EXTENDS Integers, Sequences, FiniteSets, TLC

VARIABLES
    now,                     \* time.time()
    kwPc, kwIn, kwOut,       \* SpecKwarg: position, arguments, outcome
    cache, tasks, log, waiters,      \* SpecCache
    cooldown,                \* Session._cooldown
    Leaderboards,            \* Session._Leaderboards
    DailyQuestLeaderboards,  \* Session._DailyQuestLeaderboards
    SkillPointLeaderboard,   \* Session._SkillPointLeaderboard (<<>> while unset)
    seasonal,                \* Session._seasonal (<<>> while unset)
    calls,                   \* the in-flight coroutines of Session operations
    started,                 \* operations started so far
    client, scope, closes,   \* the aiohttp ClientSession, the "async with" scope, close() calls
    scPc, scIn, scOut,       \* SpecScore: position, arguments, outcome
    heap, boards,            \* SpecBoard: the list objects and the Leaderboards
    pl, plog                 \* SpecPlayer: a Player and the calls made on it

kwVars == <<kwPc, kwIn, kwOut>>
cacheVars == <<cache, tasks, log, waiters>>
sessionVars == <<cooldown, Leaderboards, DailyQuestLeaderboards,
                 SkillPointLeaderboard, seasonal, calls, started>>
scopeVars == <<client, scope, closes>>
scoreVars == <<scPc, scIn, scOut>>
boardVars == <<heap, boards>>
playerVars == <<pl, plog>>
restVars == <<scopeVars, scoreVars, boardVars, playerVars>>
vars == <<now, kwVars, cacheVars, sessionVars, restVars>>

(***************************************************************************)
(* Bounds of the model.                                                    *)
(***************************************************************************)
MaxExtra == 1        \* characters added before or after a player id
StartTime == 100     \* time.time() when the model starts (an epoch time, far above 60)
TickLen == 30        \* seconds between two observations of the clock
MaxTicks == 2        \* clock advances per behaviour

(***************************************************************************)
(* Python values.  A value carries its type, so that str(), "is None",     *)
(* truthiness and str + value behave as in Python.                         *)
(***************************************************************************)
Str(s) == [type |-> "str", text |-> s]
Float(s) == [type |-> "float", text |-> s]
None == [type |-> "NoneType", text |-> "None"]

str(v) == v.text

\* a player id keeps its characters, for the regular expression
RECURSIVE Join(_)
Join(s) == IF s = <<>> THEN "" ELSE Head(s) \o Join(Tail(s))

\* A str is the sequence of its characters.  An ASCII character is the
\* one-character string; any other character is named by its code point, the
\* way Python escapes it: "\\xa0", "\\u0663", "\\U0001d7ce".  Where a string of
\* this module can hold the character itself, the tables below list it in
\* both ways of writing.

\* the decimal digits of Unicode (category Nd): each block holds the digits
\* 0 to 9 of one script, in order
DecimalBlocks ==
    { <<"0", "1", "2", "3", "4", "5", "6", "7", "8", "9">>,
      <<"\\u0660", "\\u0661", "\\u0662", "\\u0663", "\\u0664", "\\u0665", "\\u0666", "\\u0667", "\\u0668", "\\u0669">>,
      <<"\\u06f0", "\\u06f1", "\\u06f2", "\\u06f3", "\\u06f4", "\\u06f5", "\\u06f6", "\\u06f7", "\\u06f8", "\\u06f9">>,
      <<"۰", "۱", "۲", "۳", "۴", "۵", "۶", "۷", "۸", "۹">>,
      <<"\\u07c0", "\\u07c1", "\\u07c2", "\\u07c3", "\\u07c4", "\\u07c5", "\\u07c6", "\\u07c7", "\\u07c8", "\\u07c9">>,
      <<"߀", "߁", "߂", "߃", "߄", "߅", "߆", "߇", "߈", "߉">>,
      <<"\\u0966", "\\u0967", "\\u0968", "\\u0969", "\\u096a", "\\u096b", "\\u096c", "\\u096d", "\\u096e", "\\u096f">>,
      <<"\\u09e6", "\\u09e7", "\\u09e8", "\\u09e9", "\\u09ea", "\\u09eb", "\\u09ec", "\\u09ed", "\\u09ee", "\\u09ef">>,
      <<"০", "১", "২", "৩", "৪", "৫", "৬", "৭", "৮", "৯">>,
      <<"\\u0a66", "\\u0a67", "\\u0a68", "\\u0a69", "\\u0a6a", "\\u0a6b", "\\u0a6c", "\\u0a6d", "\\u0a6e", "\\u0a6f">>,
      <<"\\u0ae6", "\\u0ae7", "\\u0ae8", "\\u0ae9", "\\u0aea", "\\u0aeb", "\\u0aec", "\\u0aed", "\\u0aee", "\\u0aef">>,
      <<"૦", "૧", "૨", "૩", "૪", "૫", "૬", "૭", "૮", "૯">>,
      <<"\\u0b66", "\\u0b67", "\\u0b68", "\\u0b69", "\\u0b6a", "\\u0b6b", "\\u0b6c", "\\u0b6d", "\\u0b6e", "\\u0b6f">>,
      <<"\\u0be6", "\\u0be7", "\\u0be8", "\\u0be9", "\\u0bea", "\\u0beb", "\\u0bec", "\\u0bed", "\\u0bee", "\\u0bef">>,
      <<"௦", "௧", "௨", "௩", "௪", "௫", "௬", "௭", "௮", "௯">>,
      <<"\\u0c66", "\\u0c67", "\\u0c68", "\\u0c69", "\\u0c6a", "\\u0c6b", "\\u0c6c", "\\u0c6d", "\\u0c6e", "\\u0c6f">>,
      <<"\\u0ce6", "\\u0ce7", "\\u0ce8", "\\u0ce9", "\\u0cea", "\\u0ceb", "\\u0cec", "\\u0ced", "\\u0cee", "\\u0cef">>,
      <<"೦", "೧", "೨", "೩", "೪", "೫", "೬", "೭", "೮", "೯">>,
      <<"\\u0d66", "\\u0d67", "\\u0d68", "\\u0d69", "\\u0d6a", "\\u0d6b", "\\u0d6c", "\\u0d6d", "\\u0d6e", "\\u0d6f">>,
      <<"\\u0de6", "\\u0de7", "\\u0de8", "\\u0de9", "\\u0dea", "\\u0deb", "\\u0dec", "\\u0ded", "\\u0dee", "\\u0def">>,
      <<"෦", "෧", "෨", "෩", "෪", "෫", "෬", "෭", "෮", "෯">>,
      <<"\\u0e50", "\\u0e51", "\\u0e52", "\\u0e53", "\\u0e54", "\\u0e55", "\\u0e56", "\\u0e57", "\\u0e58", "\\u0e59">>,
      <<"\\u0ed0", "\\u0ed1", "\\u0ed2", "\\u0ed3", "\\u0ed4", "\\u0ed5", "\\u0ed6", "\\u0ed7", "\\u0ed8", "\\u0ed9">>,
      <<"໐", "໑", "໒", "໓", "໔", "໕", "໖", "໗", "໘", "໙">>,
      <<"\\u0f20", "\\u0f21", "\\u0f22", "\\u0f23", "\\u0f24", "\\u0f25", "\\u0f26", "\\u0f27", "\\u0f28", "\\u0f29">>,
      <<"\\u1040", "\\u1041", "\\u1042", "\\u1043", "\\u1044", "\\u1045", "\\u1046", "\\u1047", "\\u1048", "\\u1049">>,
      <<"\\u1090", "\\u1091", "\\u1092", "\\u1093", "\\u1094", "\\u1095", "\\u1096", "\\u1097", "\\u1098", "\\u1099">>,
      <<"႐", "႑", "႒", "႓", "႔", "႕", "႖", "႗", "႘", "႙">>,
      <<"\\u17e0", "\\u17e1", "\\u17e2", "\\u17e3", "\\u17e4", "\\u17e5", "\\u17e6", "\\u17e7", "\\u17e8", "\\u17e9">>,
      <<"០", "១", "២", "៣", "៤", "៥", "៦", "៧", "៨", "៩">>,
      <<"\\u1810", "\\u1811", "\\u1812", "\\u1813", "\\u1814", "\\u1815", "\\u1816", "\\u1817", "\\u1818", "\\u1819">>,
      <<"\\u1946", "\\u1947", "\\u1948", "\\u1949", "\\u194a", "\\u194b", "\\u194c", "\\u194d", "\\u194e", "\\u194f">>,
      <<"\\u19d0", "\\u19d1", "\\u19d2", "\\u19d3", "\\u19d4", "\\u19d5", "\\u19d6", "\\u19d7", "\\u19d8", "\\u19d9">>,
      <<"᧐", "᧑", "᧒", "᧓", "᧔", "᧕", "᧖", "᧗", "᧘", "᧙">>,
      <<"\\u1a80", "\\u1a81", "\\u1a82", "\\u1a83", "\\u1a84", "\\u1a85", "\\u1a86", "\\u1a87", "\\u1a88", "\\u1a89">>,
      <<"᪀", "᪁", "᪂", "᪃", "᪄", "᪅", "᪆", "᪇", "᪈", "᪉">>,
      <<"\\u1a90", "\\u1a91", "\\u1a92", "\\u1a93", "\\u1a94", "\\u1a95", "\\u1a96", "\\u1a97", "\\u1a98", "\\u1a99">>,
      <<"᪐", "᪑", "᪒", "᪓", "᪔", "᪕", "᪖", "᪗", "᪘", "᪙">>,
      <<"\\u1b50", "\\u1b51", "\\u1b52", "\\u1b53", "\\u1b54", "\\u1b55", "\\u1b56", "\\u1b57", "\\u1b58", "\\u1b59">>,
      <<"\\u1bb0", "\\u1bb1", "\\u1bb2", "\\u1bb3", "\\u1bb4", "\\u1bb5", "\\u1bb6", "\\u1bb7", "\\u1bb8", "\\u1bb9">>,
      <<"᮰", "᮱", "᮲", "᮳", "᮴", "᮵", "᮶", "᮷", "᮸", "᮹">>,
      <<"\\u1c40", "\\u1c41", "\\u1c42", "\\u1c43", "\\u1c44", "\\u1c45", "\\u1c46", "\\u1c47", "\\u1c48", "\\u1c49">>,
      <<"\\u1c50", "\\u1c51", "\\u1c52", "\\u1c53", "\\u1c54", "\\u1c55", "\\u1c56", "\\u1c57", "\\u1c58", "\\u1c59">>,
      <<"\\ua620", "\\ua621", "\\ua622", "\\ua623", "\\ua624", "\\ua625", "\\ua626", "\\ua627", "\\ua628", "\\ua629">>,
      <<"\\ua8d0", "\\ua8d1", "\\ua8d2", "\\ua8d3", "\\ua8d4", "\\ua8d5", "\\ua8d6", "\\ua8d7", "\\ua8d8", "\\ua8d9">>,
      <<"꣐", "꣑", "꣒", "꣓", "꣔", "꣕", "꣖", "꣗", "꣘", "꣙">>,
      <<"\\ua900", "\\ua901", "\\ua902", "\\ua903", "\\ua904", "\\ua905", "\\ua906", "\\ua907", "\\ua908", "\\ua909">>,
      <<"\\ua9d0", "\\ua9d1", "\\ua9d2", "\\ua9d3", "\\ua9d4", "\\ua9d5", "\\ua9d6", "\\ua9d7", "\\ua9d8", "\\ua9d9">>,
      <<"꧐", "꧑", "꧒", "꧓", "꧔", "꧕", "꧖", "꧗", "꧘", "꧙">>,
      <<"\\ua9f0", "\\ua9f1", "\\ua9f2", "\\ua9f3", "\\ua9f4", "\\ua9f5", "\\ua9f6", "\\ua9f7", "\\ua9f8", "\\ua9f9">>,
      <<"꧰", "꧱", "꧲", "꧳", "꧴", "꧵", "꧶", "꧷", "꧸", "꧹">>,
      <<"\\uaa50", "\\uaa51", "\\uaa52", "\\uaa53", "\\uaa54", "\\uaa55", "\\uaa56", "\\uaa57", "\\uaa58", "\\uaa59">>,
      <<"\\uabf0", "\\uabf1", "\\uabf2", "\\uabf3", "\\uabf4", "\\uabf5", "\\uabf6", "\\uabf7", "\\uabf8", "\\uabf9">>,
      <<"꯰", "꯱", "꯲", "꯳", "꯴", "꯵", "꯶", "꯷", "꯸", "꯹">>,
      <<"\\uff10", "\\uff11", "\\uff12", "\\uff13", "\\uff14", "\\uff15", "\\uff16", "\\uff17", "\\uff18", "\\uff19">>,
      <<"\\U000104a0", "\\U000104a1", "\\U000104a2", "\\U000104a3", "\\U000104a4", "\\U000104a5", "\\U000104a6", "\\U000104a7", "\\U000104a8", "\\U000104a9">>,
      <<"\\U00010d30", "\\U00010d31", "\\U00010d32", "\\U00010d33", "\\U00010d34", "\\U00010d35", "\\U00010d36", "\\U00010d37", "\\U00010d38", "\\U00010d39">>,
      <<"\\U00011066", "\\U00011067", "\\U00011068", "\\U00011069", "\\U0001106a", "\\U0001106b", "\\U0001106c", "\\U0001106d", "\\U0001106e", "\\U0001106f">>,
      <<"\\U000110f0", "\\U000110f1", "\\U000110f2", "\\U000110f3", "\\U000110f4", "\\U000110f5", "\\U000110f6", "\\U000110f7", "\\U000110f8", "\\U000110f9">>,
      <<"\\U00011136", "\\U00011137", "\\U00011138", "\\U00011139", "\\U0001113a", "\\U0001113b", "\\U0001113c", "\\U0001113d", "\\U0001113e", "\\U0001113f">>,
      <<"\\U000111d0", "\\U000111d1", "\\U000111d2", "\\U000111d3", "\\U000111d4", "\\U000111d5", "\\U000111d6", "\\U000111d7", "\\U000111d8", "\\U000111d9">>,
      <<"\\U000112f0", "\\U000112f1", "\\U000112f2", "\\U000112f3", "\\U000112f4", "\\U000112f5", "\\U000112f6", "\\U000112f7", "\\U000112f8", "\\U000112f9">>,
      <<"\\U00011450", "\\U00011451", "\\U00011452", "\\U00011453", "\\U00011454", "\\U00011455", "\\U00011456", "\\U00011457", "\\U00011458", "\\U00011459">>,
      <<"\\U000114d0", "\\U000114d1", "\\U000114d2", "\\U000114d3", "\\U000114d4", "\\U000114d5", "\\U000114d6", "\\U000114d7", "\\U000114d8", "\\U000114d9">>,
      <<"\\U00011650", "\\U00011651", "\\U00011652", "\\U00011653", "\\U00011654", "\\U00011655", "\\U00011656", "\\U00011657", "\\U00011658", "\\U00011659">>,
      <<"\\U000116c0", "\\U000116c1", "\\U000116c2", "\\U000116c3", "\\U000116c4", "\\U000116c5", "\\U000116c6", "\\U000116c7", "\\U000116c8", "\\U000116c9">>,
      <<"\\U00011730", "\\U00011731", "\\U00011732", "\\U00011733", "\\U00011734", "\\U00011735", "\\U00011736", "\\U00011737", "\\U00011738", "\\U00011739">>,
      <<"\\U000118e0", "\\U000118e1", "\\U000118e2", "\\U000118e3", "\\U000118e4", "\\U000118e5", "\\U000118e6", "\\U000118e7", "\\U000118e8", "\\U000118e9">>,
      <<"\\U00011950", "\\U00011951", "\\U00011952", "\\U00011953", "\\U00011954", "\\U00011955", "\\U00011956", "\\U00011957", "\\U00011958", "\\U00011959">>,
      <<"\\U00011c50", "\\U00011c51", "\\U00011c52", "\\U00011c53", "\\U00011c54", "\\U00011c55", "\\U00011c56", "\\U00011c57", "\\U00011c58", "\\U00011c59">>,
      <<"\\U00011d50", "\\U00011d51", "\\U00011d52", "\\U00011d53", "\\U00011d54", "\\U00011d55", "\\U00011d56", "\\U00011d57", "\\U00011d58", "\\U00011d59">>,
      <<"\\U00011da0", "\\U00011da1", "\\U00011da2", "\\U00011da3", "\\U00011da4", "\\U00011da5", "\\U00011da6", "\\U00011da7", "\\U00011da8", "\\U00011da9">>,
      <<"\\U00016a60", "\\U00016a61", "\\U00016a62", "\\U00016a63", "\\U00016a64", "\\U00016a65", "\\U00016a66", "\\U00016a67", "\\U00016a68", "\\U00016a69">>,
      <<"\\U00016ac0", "\\U00016ac1", "\\U00016ac2", "\\U00016ac3", "\\U00016ac4", "\\U00016ac5", "\\U00016ac6", "\\U00016ac7", "\\U00016ac8", "\\U00016ac9">>,
      <<"\\U00016b50", "\\U00016b51", "\\U00016b52", "\\U00016b53", "\\U00016b54", "\\U00016b55", "\\U00016b56", "\\U00016b57", "\\U00016b58", "\\U00016b59">>,
      <<"\\U0001d7ce", "\\U0001d7cf", "\\U0001d7d0", "\\U0001d7d1", "\\U0001d7d2", "\\U0001d7d3", "\\U0001d7d4", "\\U0001d7d5", "\\U0001d7d6", "\\U0001d7d7">>,
      <<"\\U0001d7d8", "\\U0001d7d9", "\\U0001d7da", "\\U0001d7db", "\\U0001d7dc", "\\U0001d7dd", "\\U0001d7de", "\\U0001d7df", "\\U0001d7e0", "\\U0001d7e1">>,
      <<"\\U0001d7e2", "\\U0001d7e3", "\\U0001d7e4", "\\U0001d7e5", "\\U0001d7e6", "\\U0001d7e7", "\\U0001d7e8", "\\U0001d7e9", "\\U0001d7ea", "\\U0001d7eb">>,
      <<"\\U0001d7ec", "\\U0001d7ed", "\\U0001d7ee", "\\U0001d7ef", "\\U0001d7f0", "\\U0001d7f1", "\\U0001d7f2", "\\U0001d7f3", "\\U0001d7f4", "\\U0001d7f5">>,
      <<"\\U0001d7f6", "\\U0001d7f7", "\\U0001d7f8", "\\U0001d7f9", "\\U0001d7fa", "\\U0001d7fb", "\\U0001d7fc", "\\U0001d7fd", "\\U0001d7fe", "\\U0001d7ff">>,
      <<"\\U0001e140", "\\U0001e141", "\\U0001e142", "\\U0001e143", "\\U0001e144", "\\U0001e145", "\\U0001e146", "\\U0001e147", "\\U0001e148", "\\U0001e149">>,
      <<"\\U0001e2f0", "\\U0001e2f1", "\\U0001e2f2", "\\U0001e2f3", "\\U0001e2f4", "\\U0001e2f5", "\\U0001e2f6", "\\U0001e2f7", "\\U0001e2f8", "\\U0001e2f9">>,
      <<"\\U0001e950", "\\U0001e951", "\\U0001e952", "\\U0001e953", "\\U0001e954", "\\U0001e955", "\\U0001e956", "\\U0001e957", "\\U0001e958", "\\U0001e959">>,
      <<"\\U0001fbf0", "\\U0001fbf1", "\\U0001fbf2", "\\U0001fbf3", "\\U0001fbf4", "\\U0001fbf5", "\\U0001fbf6", "\\U0001fbf7", "\\U0001fbf8", "\\U0001fbf9">> }

\* the digit each decimal character stands for: its place in its block
DigitValues ==
    [ch \in UNION {{block[i] : i \in 1..10} : block \in DecimalBlocks} |->
        CHOOSE n \in 0..9 : \E block \in DecimalBlocks : block[n + 1] = ch]

\* str.isdecimal of one character, which is also what \\d of a str pattern matches
isdecimal(ch) == ch \in DOMAIN DigitValues

DigitValue(ch) == DigitValues[ch]

RECURSIVE Decimal(_)
Decimal(ds) ==
    IF ds = <<>> THEN 0
    ELSE 10 * Decimal(SubSeq(ds, 1, Len(ds) - 1)) + DigitValue(ds[Len(ds)])

IdStr(chars) == [type |-> "str", chars |-> chars]
IdNone == [type |-> "NoneType", chars |-> <<>>]
IdTruthy(p) == p.type # "NoneType" /\ p.chars # <<>>

\* a str that keeps its characters, for parsing
Chars(chars) == [type |-> "str", text |-> Join(chars), chars |-> chars]
\* a value of a type the date parameter is not declared with
Number(s) == [type |-> "int", text |-> s]

\* utils.MISSING: a sentinel that is falsy and is not None
MISSING == [type |-> "MISSING"]

\* exceptions: <<>> is "nothing raised"
NoExc == <<>>
Raise(t, m) == <<[type |-> t, msg |-> m]>>

\* raise cls(prefix + value): str + non-str is a TypeError
RaiseConcat(cls, prefix, v) ==
    IF v.type = "str"
    THEN Raise(cls, prefix \o v.text)
    ELSE Raise("TypeError", "can only concatenate str (not \"" \o v.type \o "\") to str")

\* numbers of a payload: an int, and a float given in tenths
PInt(n) == [type |-> "int", val |-> n]
PFloat(tenths) == [type |-> "float", tenths |-> tenths]

\* bool(value), as "and" and "if" see it
Truthy(v) ==
    IF v.type = "NoneType" THEN FALSE
    ELSE IF v.type = "int" THEN v.val # 0
    ELSE IF v.type = "float" THEN v.tenths # 0
    ELSE v.chars # <<>>

\* the whitespace int() ignores around the literal of a str: of ASCII the
\* blank, tab, line feed, vertical tab, form feed and carriage return (not
\* U+001C..U+001F), and every whitespace character outside ASCII
Whitespace ==
    { " ", "\t", "\n", "\r", "\f", "",
      "\\x85", "", "\\xa0", " ", "\\u1680", " ",
      "\\u2000", "\\u2001", "\\u2002", "\\u2003",
      "\\u2004", "\\u2005", "\\u2006", "\\u2007", "\\u2008", "\\u2009", "\\u200a",
      "\\u2028", "\\u2029", "\\u202f", "\\u205f", "\\u3000" }

\* the text without the whitespace at its start / at its end
RECURSIVE LStrip(_)
LStrip(chars) ==
    IF chars # <<>> /\ Head(chars) \in Whitespace THEN LStrip(Tail(chars)) ELSE chars
RECURSIVE RStrip(_)
RStrip(chars) ==
    IF chars # <<>> /\ chars[Len(chars)] \in Whitespace
    THEN RStrip(SubSeq(chars, 1, Len(chars) - 1)) ELSE chars

\* the digits of an integer literal: decimal digits of any script, single
\* underscores between them
Literal(ds) ==
    /\ ds # <<>>
    /\ \A i \in 1..Len(ds) : isdecimal(ds[i]) \/ ds[i] = "_"
    /\ ds[1] # "_" /\ ds[Len(ds)] # "_"
    /\ \A i \in 1..(Len(ds) - 1) : ~(ds[i] = "_" /\ ds[i + 1] = "_")

RECURSIVE Digits(_)
Digits(ds) ==
    IF ds = <<>> THEN <<>>
    ELSE IF Head(ds) = "_" THEN Digits(Tail(ds))
    ELSE <<Head(ds)>> \o Digits(Tail(ds))

\* repr(str), which the message of int() holds: the quote is ' unless the
\* text holds ' and no ", a backslash is doubled, the quote in use is
\* escaped, and an ASCII control character (U+0001..U+001F, U+007F) is
\* written as its escape.  A character outside ASCII is written as itself
\* when it is printable and as its escape otherwise: either way, the string
\* that names it here.
ControlEscapes ==
    { <<"", "\\x01">>, <<"", "\\x02">>, <<"", "\\x03">>, <<"", "\\x04">>,
      <<"", "\\x05">>, <<"", "\\x06">>, <<"", "\\x07">>, <<"", "\\x08">>,
      <<"\t", "\\t">>, <<"\n", "\\n">>, <<"", "\\x0b">>, <<"\f", "\\x0c">>,
      <<"\r", "\\r">>, <<"", "\\x0e">>, <<"", "\\x0f">>, <<"", "\\x10">>,
      <<"", "\\x11">>, <<"", "\\x12">>, <<"", "\\x13">>, <<"", "\\x14">>,
      <<"", "\\x15">>, <<"", "\\x16">>, <<"", "\\x17">>, <<"", "\\x18">>,
      <<"", "\\x19">>, <<"", "\\x1a">>, <<"", "\\x1b">>, <<"", "\\x1c">>,
      <<"", "\\x1d">>, <<"", "\\x1e">>, <<"", "\\x1f">>, <<"", "\\x7f">> }
repr(chars) ==
    LET held == {chars[i] : i \in 1..Len(chars)}
        quote == IF "'" \in held /\ "\"" \notin held THEN "\"" ELSE "'"
        written(ch) ==
            IF ch = "\\" THEN "\\\\"
            ELSE IF ch = quote THEN "\\" \o ch
            ELSE IF \E p \in ControlEscapes : p[1] = ch
            THEN (CHOOSE p \in ControlEscapes : p[1] = ch)[2]
            ELSE ch
    IN  quote \o Join([i \in 1..Len(chars) |-> written(chars[i])]) \o quote

\* int(value): the integer, or the exception raised.  An int is itself, a
\* float is truncated towards zero, a str is parsed (blanks around it, a
\* sign, a literal), None is a TypeError.
int(v) ==
    IF v.type = "int" THEN [exc |-> NoExc, val |-> v.val]
    ELSE IF v.type = "float"
    THEN [exc |-> NoExc,
          val |-> IF v.tenths >= 0 THEN v.tenths \div 10 ELSE -((-v.tenths) \div 10)]
    ELSE IF v.type = "str"
    THEN LET body == RStrip(LStrip(v.chars))
             signed == body # <<>> /\ Head(body) \in {"+", "-"}
             ds == IF signed THEN Tail(body) ELSE body
         IN  IF Literal(ds)
             THEN [exc |-> NoExc,
                   val |-> IF signed /\ Head(body) = "-"
                           THEN -Decimal(Digits(ds)) ELSE Decimal(Digits(ds))]
             ELSE [exc |-> Raise("ValueError",
                                 "invalid literal for int() with base 10: "
                                     \o repr(v.chars)),
                   val |-> 0]
    ELSE [exc |-> Raise("TypeError",
                        "int() argument must be a string, a bytes-like object or a "
                            \o "real number, not '" \o v.type \o "'"),
          val |-> 0]

(***************************************************************************)
(* core.py: ID_REGEX and LEVELS                                            *)
(***************************************************************************)
Upper == {"A","B","C","D","E","F","G","H","I","J","K","L","M",
          "N","O","P","Q","R","S","T","U","V","W","X","Y","Z"}
Digit == {"0","1","2","3","4","5","6","7","8","9"}
AlNum == Upper \cup Digit

RECURSIVE Rep(_, _)
Rep(p, n) == IF n = 0 THEN <<>> ELSE p \o Rep(p, n - 1)

\* U-([A-Z0-9]{4}-){2}[A-Z0-9]{6} as its sequence of character classes
ID_REGEX == <<{"U"}, {"-"}>> \o Rep(Rep(<<AlNum>>, 4) \o <<{"-"}>>, 2) \o Rep(<<AlNum>>, 6)

\* re.Pattern.match: the pattern must match at the start of the string;
\* what follows the match is not looked at
re_match(pattern, s) ==
    /\ Len(s) >= Len(pattern)
    /\ \A i \in 1..Len(pattern) : s[i] \in pattern[i]

LEVELS == {
    "1.1", "1.2", "1.3", "1.4", "1.5", "1.6", "1.7", "1.8", "1.b1",
    "2.1", "2.2", "2.3", "2.4", "2.5", "2.6", "2.7", "2.8", "2.b1",
    "3.1", "3.2", "3.3", "3.4", "3.5", "3.6", "3.7", "3.8", "3.b1",
    "4.1", "4.2", "4.3", "4.4", "4.5", "4.6", "4.7", "4.8", "4.b1",
    "5.1", "5.2", "5.3", "5.4", "5.5", "5.6", "5.7", "5.8", "5.b1", "5.b2",
    "6.1", "6.2", "6.3", "6.4", "6.5", "rumble", "dev", "zecred",
    "DQ1", "DQ3", "DQ4", "DQ5", "DQ7", "DQ8", "DQ9", "DQ10", "DQ11", "DQ12" }

MODES == {"score", "waves"}
DIFFICULTIES == {"EASY", "NORMAL", "ENDLESS_I"}

(***************************************************************************)
(* Session._kwarg_check: the exception it raises, NoExc when it returns.   *)
(* An argument left out has its default, None.                             *)
(***************************************************************************)
_kwarg_check(mapname, playerid, mode, difficulty) ==
    IF mapname # None /\ str(mapname) \notin LEVELS
    THEN RaiseConcat("BadArgument", "Invalid map: ", mapname)
    ELSE IF playerid # IdNone /\ ~re_match(ID_REGEX, playerid.chars)
    THEN Raise("BadArgument", "Invalid playerid: " \o Join(playerid.chars))
    ELSE IF mode # None /\ ~(mode.text \in MODES)
    THEN RaiseConcat("BadArgument", "Invalid mode (must be either 'score' or 'waves'): ", mode)
    ELSE IF difficulty # None /\ ~(difficulty.text \in DIFFICULTIES)
    THEN RaiseConcat("BadArgument",
            "Invalid difficulty (must be one of 'EASY', 'NORMAL', 'ENDLESS_I': ", difficulty)
    ELSE NoExc

\* _kwarg_check is not being exercised
KwIdle ==
    /\ kwPc = "off"
    /\ kwIn = [mapname |-> None, playerid |-> IdNone, mode |-> None, difficulty |-> None]
    /\ kwOut = NoExc

(***************************************************************************)
(* Inputs of _kwarg_check                                                  *)
(***************************************************************************)
BaseId == <<"U","-","A","B","C","D","-","0","1","2","3","-","X","Y","Z","7","8","9">>

\* characters tried in edits of a player id
EditChars == {"A", "Z", "0", "9", "U", "a", "z", "-", "_", " "}

RECURSIVE SeqsUpTo(_, _)
SeqsUpTo(S, n) ==
    IF n = 0 THEN {<<>>}
    ELSE LET shorter == SeqsUpTo(S, n - 1)
         IN  shorter \cup {Append(s, ch) : s \in shorter, ch \in S}

Subst(s, i, ch) == [s EXCEPT ![i] = ch]
Delete(s, i) == SubSeq(s, 1, i - 1) \o SubSeq(s, i + 1, Len(s))

IdInputs ==
    {BaseId, <<>>}
    \cup {Subst(BaseId, i, ch) : i \in 1..Len(BaseId), ch \in EditChars}
    \cup {Delete(BaseId, i) : i \in 1..Len(BaseId)}
    \cup {BaseId \o e : e \in SeqsUpTo(EditChars, MaxExtra)}
    \cup {e \o BaseId : e \in SeqsUpTo(EditChars, MaxExtra)}

MapInputs == {Str("1.1"), Str("5.b2"), Str("DQ7"), Str("9.9"), Str(""), Str("1.1 "),
              Float("1.1"), Float("9.9"), None}
ModeInputs == {Str("score"), Str("waves"), Str("Score"), Str(""), None}
DifficultyInputs == {Str("EASY"), Str("NORMAL"), Str("ENDLESS_I"), Str("HARD"), Str("normal"), None}

KwInputs ==
    {[mapname |-> None, playerid |-> IdStr(p), mode |-> None, difficulty |-> None] :
        p \in IdInputs}
    \cup {[mapname |-> m, playerid |-> p, mode |-> mo, difficulty |-> d] :
            m \in MapInputs, p \in {IdNone, IdStr(BaseId), IdStr(<<>>)},
            mo \in ModeInputs, d \in DifficultyInputs}

(***************************************************************************)
(* The Session (core.py).  Dictionaries are functions on their keys; an    *)
(* attribute that is declared but not assigned (_SkillPointLeaderboard,    *)
(* _seasonal) is <<>> until it is set.                                     *)
(***************************************************************************)
Callers == {"c1", "c2"}
CallerBefore(c, d) == c = "c1" /\ d = "c2"
MaxCalls == 2        \* operations started per behaviour
MaxTime == StartTime + MaxTicks * TickLen

\* dict.get(key, default)
Get(d, k, default) == IF k \in DOMAIN d THEN d[k] ELSE default
\* d[key] = value
Put(d, k, v) == (k :> v) @@ d

InCooldownInclusive(stamp, t) == t <= stamp + 60

\* time.time() < self._cooldown[...] + 60
InCooldown(stamp, t) == t < stamp + 60

\* datetime.datetime.utcnow().strftime("%Y-%m-%d"); the day changes at Midnight
Midnight == StartTime + 2 * TickLen
utcnow_date(t) == IF t < Midnight THEN "2022-06-01" ELSE "2022-06-02"

IsLeap(y) == (y % 4 = 0 /\ y % 100 # 0) \/ y % 400 = 0
DaysIn(m, y) ==
    IF m = 2 THEN (IF IsLeap(y) THEN 29 ELSE 28)
    ELSE IF m \in {4, 6, 9, 11} THEN 30 ELSE 31

\* the text %m accepts: 1[0-2]|0[1-9]|[1-9]
MonthToken(m) ==
    \/ Len(m) = 2 /\ m[1] = "1" /\ m[2] \in {"0", "1", "2"}
    \/ Len(m) = 2 /\ m[1] = "0" /\ m[2] \in Digit \ {"0"}
    \/ Len(m) = 1 /\ m[1] \in Digit \ {"0"}

\* the text %d accepts: 3[0-1]|[1-2]\d|0[1-9]|[1-9]| [1-9], where \d is a
\* decimal digit of any script
DayToken(d) ==
    \/ Len(d) = 2 /\ d[1] = "3" /\ d[2] \in {"0", "1"}
    \/ Len(d) = 2 /\ d[1] \in {"1", "2"} /\ isdecimal(d[2])
    \/ Len(d) = 2 /\ d[1] = "0" /\ d[2] \in Digit \ {"0"}
    \/ Len(d) = 1 /\ d[1] \in Digit \ {"0"}
    \/ Len(d) = 2 /\ d[1] = " " /\ d[2] \in Digit \ {"0"}
\* int() of that text
DayValue(d) == IF d[1] = " " THEN DigitValue(d[2]) ELSE Decimal(d)

\* datetime.datetime.strptime(date, "%Y-%m-%d") succeeds: the text is four
\* decimal digits (\d\d\d\d), "-", a month, "-", a day and nothing else, the
\* year is not 0 and the day exists (anything else is a ValueError)
Parsable(chars) ==
    \E i \in 1..2 :
        LET y == SubSeq(chars, 1, 4)
            m == SubSeq(chars, 6, 5 + i)
            d == SubSeq(chars, 7 + i, Len(chars))
        IN  /\ Len(chars) >= 7 + i
            /\ \A k \in 1..4 : isdecimal(y[k])
            /\ chars[5] = "-" /\ MonthToken(m)
            /\ chars[6 + i] = "-" /\ DayToken(d)
            /\ Decimal(y) >= 1
            /\ DayValue(d) <= DaysIn(Decimal(m), Decimal(y))
DateTime(s) == [type |-> "datetime", text |-> s]

\* what the server answers
Ranked == [score |-> PInt(1500), rank |-> PInt(3), total |-> PInt(10)]
Unranked == [score |-> PInt(0), rank |-> PInt(0), total |-> PInt(10)]
Response(http, status, message, player, page) ==
    [http |-> http, status |-> status, message |-> message, player |-> player, page |-> page]
PostResponses ==
    { Response(200, "success", "", Ranked, ""),
      Response(200, "success", "", Unranked, ""),
      Response(200, "error", "Player not found", Unranked, ""),
      Response(502, "", "", Unranked, "") }
\* the seasonal pages tried: a complete one, an empty one, and pages that
\* lack one thing the parser reads
GetResponses ==
    { Response(200, "", "", Unranked, "ok"),
      Response(200, "", "", Unranked, ""),
      Response(200, "", "", Unranked, "season_without_i18nf"),
      Response(200, "", "", Unranked, "season_not_a_number"),
      Response(200, "", "", Unranked, "no_player_count"),
      Response(502, "", "", Unranked, "") }

\* of these, the complete page, the empty page and the failed request
FewGetResponses == {r \in GetResponses : r.page \in {"ok", ""}}

\* r.raise_for_status() raises for a status of 400 and above
raise_for_status(r) == r.http >= 400

IdleCall ==
    [pc |-> "idle", op |-> "", mapname |-> None, playerid |-> IdNone, mode |-> None,
     difficulty |-> None, date |-> None, warning |-> FALSE, warned |-> FALSE,
     key |-> "", age |-> -1, n |-> 0,
     reqs |-> <<>>, hit |-> FALSE, resp |-> <<>>, exc |-> NoExc, ret |-> <<>>]

NewCall(op, mapname, playerid, mode, difficulty) ==
    [IdleCall EXCEPT !.op = op, !.mapname = mapname, !.playerid = playerid,
                     !.mode = mode, !.difficulty = difficulty, !.n = started + 1]

\* the coroutine ends by raising / by returning / suspends on its request
Raises(call, exc) == [call EXCEPT !.pc = "done", !.exc = exc]
Returns(call, obj) == [call EXCEPT !.pc = "done", !.ret = <<obj>>]
RequestsAgain(call, method) ==
    [call EXCEPT !.pc = "await", !.reqs = Append(Append(@, method), method)]
\* (a closed aiohttp.ClientSession refuses the request with RuntimeError)
Requests(call, method) ==
    IF client = "closed" THEN [call EXCEPT !.pc = "done",
                                           !.exc = Raise("RuntimeError", "Session is closed")]
    ELSE [call EXCEPT !.pc = "await", !.reqs = Append(@, method)]

SessionInitStamped ==
    /\ cooldown = [DailyQuestInfo |-> now, LatestNews |-> now, DailyQuestLeaderboards |-> <<>>,
                   SkillPointLeaderboard |-> now, BasicLevelsTopLeaderboards |-> <<>>,
                   Leaderboards |-> <<>>, seasonal |-> now]
    /\ DailyQuestLeaderboards = <<>>
    /\ Leaderboards = <<>>
    /\ SkillPointLeaderboard = <<>>
    /\ seasonal = <<>>
    /\ calls = [c \in Callers |-> IdleCall]
    /\ started = 0

\* Session.__init__: the cooldown stamps start at 0.0, the tables empty
SessionInit ==
    /\ cooldown = [DailyQuestInfo |-> 0, LatestNews |-> 0, DailyQuestLeaderboards |-> <<>>,
                   SkillPointLeaderboard |-> 0, BasicLevelsTopLeaderboards |-> <<>>,
                   Leaderboards |-> <<>>, seasonal |-> 0]
    /\ DailyQuestLeaderboards = <<>>
    /\ Leaderboards = <<>>
    /\ SkillPointLeaderboard = <<>>
    /\ seasonal = <<>>
    /\ calls = [c \in Callers |-> IdleCall]
    /\ started = 0

_postAcceptsErrorStatus(r) ==
    IF raise_for_status(r)
    THEN Raise("APIError", "Something went wrong. Try again later")
    ELSE NoExc

\* Session._post after the response arrived: the exception it raises
_post(r) ==
    IF raise_for_status(r)
    THEN Raise("APIError", "Something went wrong. Try again later")
    ELSE IF r.status = "success"
    THEN NoExc
    ELSE Raise("APIError", "Error response from server: " \o r.message)

\* Score.__init__: the conversions that can raise, in their order
\* (a total left out is None and is not converted)
Score_raises(rank, score, total) ==
    IF int(rank).exc # NoExc THEN int(rank).exc
    ELSE IF int(score).exc # NoExc THEN int(score).exc
    ELSE IF total # None THEN int(total).exc
    ELSE NoExc

\* Score.__init__, when nothing raised
Score(method, mapname, mode, difficulty, playerid, rank, score, top, total) ==
    [cls |-> "Score", method |-> method, mapname |-> mapname, mode |-> mode,
     difficulty |-> difficulty, playerid |-> playerid,
     rank |-> int(rank).val, score |-> int(score).val, top |-> top,
     total |-> IF total # None THEN <<int(total).val>> ELSE <<>>]

Score_from_payload_Swapped(method, mapname, mode, difficulty, playerid, payload) ==
    Score(method, mapname, mode, difficulty, playerid,
          payload.player.score, payload.player.rank, None, payload.player.total)

\* Score.from_payload: Score(method, ..., playerid, **payload["player"])
Score_from_payload(method, mapname, mode, difficulty, playerid, payload) ==
    Score(method, mapname, mode, difficulty, playerid,
          payload.player.rank, payload.player.score, None, payload.player.total)

\* Leaderboard.from_payload builds the player's own Score only for a player
\* id and a payload with score, rank and total all truthy
HasPlayerScore(playerid, payload) ==
    /\ playerid # IdNone
    /\ Truthy(payload.player.score) /\ Truthy(payload.player.rank)
    /\ Truthy(payload.player.total)

\* what Leaderboard.from_payload raises before it returns
Leaderboard_raises(playerid, payload) ==
    IF HasPlayerScore(playerid, payload)
       /\ Score_raises(payload.player.rank, payload.player.score,
                       payload.player.total) # NoExc
    THEN Score_raises(payload.player.rank, payload.player.score, payload.player.total)
    ELSE int(payload.player.total).exc

\* Leaderboard.from_payload, when nothing raised (the Session keeps the
\* object; id tells the objects of different calls apart)
Leaderboard_from_payload(id, method, mapname, mode, difficulty, playerid, payload, date) ==
    [cls |-> "Leaderboard", id |-> id, method |-> method, mapname |-> mapname,
     mode |-> mode, difficulty |-> difficulty, date |-> date,
     total |-> int(payload.player.total).val,
     player |-> IF HasPlayerScore(playerid, payload)
                THEN <<Score_from_payload(method, mapname, mode, difficulty,
                                          playerid, payload)>>
                ELSE <<>>]

(***************************************************************************)
(* Session operations.  A coroutine runs without interruption up to its    *)
(* request (the action named after the operation) and again from the       *)
(* response to its end (the _resume action).                               *)
(***************************************************************************)
cacheState == <<cooldown, Leaderboards, DailyQuestLeaderboards,
                SkillPointLeaderboard, seasonal>>
outside == <<now, kwVars, cacheVars, restVars>>

\* the operations that keep their result
CachedOps == {"leaderboards", "skill_point_leaderboard", "daily_quest_leaderboards",
              "seasonal_leaderboard"}

\* the stored result and the cooldown timestamp of an operation's key
StoredIn(lbs, dqs, sp, se, op, key) ==
    IF op = "leaderboards"
    THEN (IF key \in DOMAIN lbs THEN <<lbs[key]>> ELSE <<>>)
    ELSE IF op = "daily_quest_leaderboards"
    THEN (IF key \in DOMAIN dqs THEN <<dqs[key]>> ELSE <<>>)
    ELSE IF op = "skill_point_leaderboard" THEN sp
    ELSE se

StampIn(cd, op, key) ==
    IF op = "leaderboards" THEN Get(cd.Leaderboards, key, 0)
    ELSE IF op = "daily_quest_leaderboards" THEN Get(cd.DailyQuestLeaderboards, key, 0)
    ELSE IF op = "skill_point_leaderboard" THEN cd.SkillPointLeaderboard
    ELSE cd.seasonal

StoredFor(op, key) ==
    StoredIn(Leaderboards, DailyQuestLeaderboards, SkillPointLeaderboard, seasonal, op, key)
StampFor(op, key) == StampIn(cooldown, op, key)
\* what the cooldown test of a call finds: the seconds since the result of
\* the call's key was stored, -1 when none is stored
Age(call) ==
    IF call.op \in CachedOps /\ StoredFor(call.op, call.key) # <<>>
    THEN now - StampFor(call.op, call.key)
    ELSE -1

\* a caller that is not suspended in an operation starts one; callers differ
\* in name only, so the first operation is started by the first of them
Begin(c, call) ==
    /\ calls[c].pc # "await"
    /\ \A d \in Callers : CallerBefore(d, c) => calls[d].pc # "idle"
    /\ started < MaxCalls
    /\ started' = started + 1
    /\ calls' = [calls EXCEPT ![c] = [call EXCEPT !.age = Age(call)]]

Awaiting(c, op) == calls[c].pc = "await" /\ calls[c].op = op

leaderboards_rank(c, mapname, playerid, mode, difficulty) ==
    LET call == NewCall("leaderboards_rank", mapname, playerid, mode, difficulty)
        exc == _kwarg_check(mapname, playerid, mode, difficulty)
    IN  /\ Begin(c, IF exc # NoExc THEN Raises(call, exc) ELSE Requests(call, "POST"))
        /\ UNCHANGED <<cacheState, outside>>

leaderboards_rank_resume(c, r) ==
    /\ Awaiting(c, "leaderboards_rank")
    /\ LET call == [calls[c] EXCEPT !.resp = <<r>>]
           exc == _post(r)
           bad == Score_raises(r.player.rank, r.player.score, r.player.total)
       IN  calls' = [calls EXCEPT ![c] =
                IF exc # NoExc THEN Raises(call, exc)
                ELSE IF bad # NoExc THEN Raises(call, bad)
                ELSE Returns(call, Score_from_payload("leaderboards_rank", call.mapname,
                                call.mode, call.difficulty, call.playerid, r))]
    /\ UNCHANGED <<cacheState, started, outside>>

leaderboards(c, mapname, playerid, mode, difficulty) ==
    LET exc == _kwarg_check(mapname, playerid, mode, difficulty)
        key == str(difficulty) \o str(mode) \o str(mapname)
        call == [NewCall("leaderboards", mapname, playerid, mode, difficulty)
                    EXCEPT !.key = key]
    IN  /\ Begin(c,
              IF exc # NoExc THEN Raises(call, exc)
              ELSE IF ~IdTruthy(playerid) /\ InCooldown(Get(cooldown.Leaderboards, key, 0), now)
              THEN IF key \in DOMAIN Leaderboards
                   THEN Returns([call EXCEPT !.hit = TRUE], Leaderboards[key])
                   ELSE Raises(call, Raise("KeyError", key))
              ELSE Requests(call, "POST"))
        /\ UNCHANGED <<cacheState, outside>>

leaderboards_resume(c, r) ==
    /\ Awaiting(c, "leaderboards")
    /\ LET call == [calls[c] EXCEPT !.resp = <<r>>]
           exc == IF _post(r) # NoExc THEN _post(r)
                  ELSE Leaderboard_raises(call.playerid, r)
           lb == Leaderboard_from_payload(call.n, "leaderboards", call.mapname, call.mode,
                                          call.difficulty, call.playerid, r, None)
       IN  IF exc # NoExc
           THEN /\ calls' = [calls EXCEPT ![c] = Raises(call, exc)]
                /\ UNCHANGED cacheState
           ELSE /\ calls' = [calls EXCEPT ![c] = Returns(call, lb)]
                /\ IF lb.player = <<>>
                   THEN /\ Leaderboards' = Put(Leaderboards, call.key, lb)
                        /\ cooldown' = [cooldown EXCEPT !.Leaderboards = Put(@, call.key, now)]
                   ELSE UNCHANGED <<Leaderboards, cooldown>>
                /\ UNCHANGED <<DailyQuestLeaderboards, SkillPointLeaderboard, seasonal>>
    /\ UNCHANGED <<started, outside>>

runtime_leaderboards(c, mapname, playerid, mode, difficulty) ==
    LET call == NewCall("runtime_leaderboards", mapname, playerid, mode, difficulty)
        exc == _kwarg_check(mapname, playerid, mode, difficulty)
    IN  /\ Begin(c, IF exc # NoExc THEN Raises(call, exc) ELSE Requests(call, "POST"))
        /\ UNCHANGED <<cacheState, outside>>

runtime_leaderboards_resume(c, r) ==
    /\ Awaiting(c, "runtime_leaderboards")
    /\ LET call == [calls[c] EXCEPT !.resp = <<r>>]
           exc == IF _post(r) # NoExc THEN _post(r)
                  ELSE Leaderboard_raises(call.playerid, r)
           lb == Leaderboard_from_payload(call.n, "runtime_leaderboards", call.mapname,
                                          call.mode, call.difficulty, call.playerid, r, None)
       IN  IF exc # NoExc
           THEN calls' = [calls EXCEPT ![c] = Raises(call, exc)]
           ELSE calls' = [calls EXCEPT ![c] = Returns(call, lb)]
    /\ UNCHANGED <<cacheState, started, outside>>

skill_point_leaderboard(c, playerid) ==
    LET call == NewCall("skill_point_leaderboard", None, playerid, None, None)
        exc == IF playerid # IdNone THEN _kwarg_check(None, playerid, None, None) ELSE NoExc
    IN  /\ Begin(c,
              IF exc # NoExc THEN Raises(call, exc)
              ELSE IF playerid = IdNone /\ InCooldown(cooldown.SkillPointLeaderboard, now)
              THEN IF SkillPointLeaderboard # <<>>
                   THEN Returns([call EXCEPT !.hit = TRUE], SkillPointLeaderboard[1])
                   ELSE Raises(call, Raise("AttributeError",
                                             "'Session' object has no attribute '_SkillPointLeaderboard'"))
              ELSE Requests(call, "POST"))
        /\ UNCHANGED <<cacheState, outside>>

skill_point_leaderboard_resume(c, r) ==
    /\ Awaiting(c, "skill_point_leaderboard")
    /\ LET call == [calls[c] EXCEPT !.resp = <<r>>]
           exc == IF _post(r) # NoExc THEN _post(r)
                  ELSE Leaderboard_raises(call.playerid, r)
           lb == Leaderboard_from_payload(call.n, "skill_point_leaderboard", Str("SP"),
                                          Str("score"), Str("NORMAL"), call.playerid, r, None)
       IN  IF exc # NoExc
           THEN /\ calls' = [calls EXCEPT ![c] = Raises(call, exc)]
                /\ UNCHANGED cacheState
           ELSE /\ calls' = [calls EXCEPT ![c] = Returns(call, lb)]
                /\ IF lb.player = <<>>
                   THEN /\ SkillPointLeaderboard' = <<lb>>
                        /\ cooldown' = [cooldown EXCEPT !.SkillPointLeaderboard = now]
                   ELSE UNCHANGED <<SkillPointLeaderboard, cooldown>>
                /\ UNCHANGED <<Leaderboards, DailyQuestLeaderboards, seasonal>>
    /\ UNCHANGED <<started, outside>>

\* the date normalisation at the head of daily_quest_leaderboards: the date
\* used, whether the warning was logged, and the exception that is not caught
\* (only ValueError is)
normalize_date(date, warning, t) ==
    IF date = None
    THEN [date |-> utcnow_date(t), warned |-> FALSE, exc |-> NoExc]
    ELSE IF date.type = "datetime"
    THEN [date |-> date.text, warned |-> FALSE, exc |-> NoExc]
    ELSE IF date.type # "str"
    THEN [date |-> date.text, warned |-> FALSE,
          exc |-> Raise("TypeError", "strptime() argument 1 must be str, not " \o date.type)]
    ELSE IF Parsable(date.chars)
    THEN [date |-> date.text, warned |-> FALSE, exc |-> NoExc]
    ELSE [date |-> utcnow_date(t), warned |-> warning, exc |-> NoExc]

daily_quest_leaderboards(c, date, playerid, warning) ==
    LET norm == normalize_date(date, warning, now)
        call == [NewCall("daily_quest_leaderboards", None, playerid, None, None)
                    EXCEPT !.date = date, !.warning = warning,
                           !.warned = norm.warned, !.key = norm.date]
        exc == IF playerid # IdNone THEN _kwarg_check(None, playerid, None, None) ELSE NoExc
    IN  /\ Begin(c,
              IF norm.exc # NoExc THEN Raises(call, norm.exc)
              ELSE IF ~IdTruthy(playerid)
                 /\ InCooldown(Get(cooldown.DailyQuestLeaderboards, norm.date, 0), now)
              THEN IF norm.date \in DOMAIN DailyQuestLeaderboards
                   THEN Returns([call EXCEPT !.hit = TRUE], DailyQuestLeaderboards[norm.date])
                   ELSE Raises(call, Raise("KeyError", norm.date))
              ELSE IF exc # NoExc THEN Raises(call, exc)
              ELSE Requests(call, "POST"))
        /\ UNCHANGED <<cacheState, outside>>

daily_quest_leaderboards_resume(c, r) ==
    /\ Awaiting(c, "daily_quest_leaderboards")
    /\ LET call == [calls[c] EXCEPT !.resp = <<r>>]
           exc == IF _post(r) # NoExc THEN _post(r)
                  ELSE Leaderboard_raises(call.playerid, r)
           lb == Leaderboard_from_payload(call.n, "daily_quest_leaderboards", Str("DQ"),
                                          Str("score"), Str("NORMAL"), call.playerid, r,
                                          Str(call.key))
       IN  IF exc # NoExc
           THEN /\ calls' = [calls EXCEPT ![c] = Raises(call, exc)]
                /\ UNCHANGED cacheState
           ELSE /\ calls' = [calls EXCEPT ![c] = Returns(call, lb)]
                /\ IF lb.player = <<>>
                   THEN /\ DailyQuestLeaderboards' = Put(DailyQuestLeaderboards, call.key, lb)
                        /\ cooldown' = [cooldown EXCEPT
                                          !.DailyQuestLeaderboards = Put(@, call.key, now)]
                   ELSE UNCHANGED <<DailyQuestLeaderboards, cooldown>>
                /\ UNCHANGED <<Leaderboards, SkillPointLeaderboard, seasonal>>
    /\ UNCHANGED <<started, outside>>

seasonal_leaderboard(c) ==
    LET call == NewCall("seasonal_leaderboard", None, IdNone, None, None)
    IN  /\ Begin(c,
              IF InCooldown(cooldown.seasonal, now)
              THEN IF seasonal # <<>>
                   THEN Returns([call EXCEPT !.hit = TRUE], seasonal[1])
                   ELSE Raises(call, Raise("AttributeError",
                                             "'Session' object has no attribute '_seasonal'"))
              ELSE Requests(call, "GET"))
        /\ UNCHANGED <<cacheState, outside>>

\* what reading the season and the player count off the page raises: a page
\* without the season label (select_one gives None, which is subscripted),
\* a season label without the i18nf attribute, a season that is no number,
\* a page without the player-count label (select(...)[0])
seasonal_page_raises(page) ==
    IF page = "ok" THEN NoExc
    ELSE IF page = "season_without_i18nf" THEN Raise("KeyError", "i18nf")
    ELSE IF page = "season_not_a_number"
    THEN Raise("ValueError", "invalid literal for int() with base 10: 'four'")
    ELSE IF page = "no_player_count" THEN Raise("IndexError", "list index out of range")
    ELSE Raise("TypeError", "'NoneType' object is not subscriptable")

seasonal_leaderboard_resume(c, r) ==
    /\ Awaiting(c, "seasonal_leaderboard")
    /\ LET call == [calls[c] EXCEPT !.resp = <<r>>]
           lb == Leaderboard_from_payload(call.n, "seasonal_leaderboard", Str("season"),
                                          Str("score"), Str("NORMAL"), IdNone, r, None)
       IN  IF raise_for_status(r)
           THEN /\ calls' = [calls EXCEPT ![c] = Raises(call, Raise("APIError", "Bad Gateway."))]
                /\ UNCHANGED cacheState
           ELSE IF seasonal_page_raises(r.page) # NoExc
           THEN /\ calls' = [calls EXCEPT ![c] = Raises(call, seasonal_page_raises(r.page))]
                /\ UNCHANGED cacheState
           ELSE /\ calls' = [calls EXCEPT ![c] = Returns(call, lb)]
                /\ seasonal' = <<lb>>
                /\ cooldown' = [cooldown EXCEPT !.seasonal = now]
                /\ UNCHANGED <<Leaderboards, DailyQuestLeaderboards, SkillPointLeaderboard>>
    /\ UNCHANGED <<started, outside>>

player(c, playerid) ==
    LET call == NewCall("player", None, playerid, None, None)
        exc == _kwarg_check(None, playerid, None, None)
    IN  /\ Begin(c, IF exc # NoExc THEN Raises(call, exc) ELSE Requests(call, "GET"))
        /\ UNCHANGED <<cacheState, outside>>

\* a profile page: which regions it has, and its level rows
Profile(nickname, xp, season, footer, rows) ==
    [nickname |-> nickname, xp |-> xp, season |-> season, footer |-> footer, rows |-> rows]
Row(level, ranked) == [level |-> level, ranked |-> ranked]

\* the parameters of Player.__init__ in their order, all of them required:
\* those that may be passed by position, and those after the bare *
PositionalParams == <<"beta", "playerid", "nickname">>
KeywordOnlyParams ==
    <<"levels", "level", "xp", "xp_max", "season_level", "season_xp", "season_xp_max",
      "badges", "total_score", "total_rank", "total_top", "replays", "issues", "created_at">>
PlayerParams ==
    {PositionalParams[i] : i \in 1..Len(PositionalParams)}
        \cup {KeywordOnlyParams[i] : i \in 1..Len(KeywordOnlyParams)}

\* names as a TypeError lists them: 'a' / 'a' and 'b' / 'a', 'b', and 'c'
RECURSIVE CommaList(_)
CommaList(names) ==
    IF Len(names) = 1 THEN "'" \o names[1] \o "'"
    ELSE CommaList(SubSeq(names, 1, Len(names) - 1)) \o ", '" \o names[Len(names)] \o "'"
MissingArguments(func, kind, names) ==
    LET list == IF Len(names) = 1 THEN CommaList(names)
                ELSE IF Len(names) = 2
                THEN "'" \o names[1] \o "' and '" \o names[2] \o "'"
                ELSE CommaList(SubSeq(names, 1, Len(names) - 1))
                         \o ", and '" \o names[Len(names)] \o "'"
    IN  Raise("TypeError",
              func \o "() missing " \o ToString(Len(names)) \o " required "
                   \o kind \o " argument" \o (IF Len(names) = 1 THEN "" ELSE "s")
                   \o ": " \o list)

\* the first keyword of a call (keys in the order given) that is no parameter
Unexpected(keys, params) ==
    SelectSeq(keys, LAMBDA k : k \notin params)

\* Player(**t): the call binds the keys of t, in their order, to the
\* parameters; a key that is no parameter is reported first, then the
\* positional parameters left without a value, then the keyword-only ones
Player_binds(keys) ==
    LET given == {keys[i] : i \in 1..Len(keys)}
        nopos == SelectSeq(PositionalParams, LAMBDA k : k \notin given)
        nokw == SelectSeq(KeywordOnlyParams, LAMBDA k : k \notin given)
    IN  IF Unexpected(keys, PlayerParams) # <<>>
        THEN Raise("TypeError", "Player.__init__() got an unexpected keyword argument '"
                                    \o Unexpected(keys, PlayerParams)[1] \o "'")
        ELSE IF nopos # <<>> THEN MissingArguments("Player.__init__", "positional", nopos)
        ELSE IF nokw # <<>> THEN MissingArguments("Player.__init__", "keyword-only", nokw)
        ELSE NoExc

\* Player.__init__: the conversions that can raise, in their order
Player_raises(t) ==
    IF int(t.total_score).exc # NoExc THEN int(t.total_score).exc
    ELSE int(t.total_rank).exc

\* Player.__init__, when nothing raised: total_score and total_rank are
\* converted with int(), the two lazily fetched scores start as MISSING
Player(t) ==
    [cls |-> "Player", daily_quest |-> MISSING, skill_point |-> MISSING]
        @@ [t EXCEPT !.total_score = int(@).val, !.total_rank = int(@).val]

\* the Score _parse_player builds for a level row
LevelScore(row, playerid) ==
    IF row.ranked
    THEN Score("player", Str(row.level), Str("score"), Str("NORMAL"), playerid,
               PInt(5), PInt(700), Str("5%"), PInt(90))
    ELSE Score("player", Str(row.level), Str("score"), Str("NORMAL"), playerid,
               PInt(0), PInt(0), Str("-%"), PInt(0))

\* the keys of the dictionary t, in the order _parse_player sets them
ParsedKeys ==
    <<"playerid", "nickname", "total_score", "total_rank", "total_top", "level", "xp",
      "xp_max", "season_xp", "season_xp_max", "season_level", "levels", "badges",
      "replays", "issues", "created_at">>

\* the dictionary t that _parse_player fills for a page with its regions
\* (the pages have no totals box: the three totals are the int 0); levels is
\* a dictionary by level name, so of two rows of one level the later stays
ParsedFields(page, playerid) ==
    [playerid |-> playerid, nickname |-> "nick",
     total_score |-> PInt(0), total_rank |-> PInt(0), total_top |-> PInt(0),
     level |-> 1, xp |-> 10, xp_max |-> 100,
     season_xp |-> IF page.season THEN 40 ELSE 0,
     season_xp_max |-> IF page.season THEN 800 ELSE 500,
     season_level |-> IF page.season THEN 3 ELSE 1,
     levels |-> [lv \in {page.rows[k].level : k \in 1..Len(page.rows)} |->
                    LET last == CHOOSE k \in 1..Len(page.rows) :
                                    /\ page.rows[k].level = lv
                                    /\ \A j \in (k + 1)..Len(page.rows) :
                                           page.rows[j].level # lv
                    IN  LevelScore(page.rows[last], playerid)],
     badges |-> <<>>, replays |-> 0, issues |-> 0, created_at |-> "2020-01-01"]

\* Session._parse_player: the exception it raises, and the Player it returns
_parse_player(page, playerid) ==
    IF ~page.nickname
    THEN [exc |-> Raise("AttributeError", "'NoneType' object has no attribute 'text'"),
          ret |-> <<>>]
    ELSE IF ~page.xp
    THEN [exc |-> RaiseConcat("BadArgument", "Invalid playerid: ",
                              [type |-> playerid.type, text |-> Join(playerid.chars)]),
          ret |-> <<>>]
    ELSE IF ~page.footer
    THEN [exc |-> Raise("IndexError", "list index out of range"), ret |-> <<>>]
    ELSE LET t == ParsedFields(page, playerid)
             bad == Player_binds(ParsedKeys)
         IN  IF bad # NoExc THEN [exc |-> bad, ret |-> <<>>]
             ELSE IF Player_raises(t) # NoExc THEN [exc |-> Player_raises(t), ret |-> <<>>]
             ELSE [exc |-> NoExc, ret |-> <<Player(t)>>]

player_resume(c, r) ==
    /\ Awaiting(c, "player")
    /\ LET call == [calls[c] EXCEPT !.resp = <<r>>]
           parsed == _parse_player(r.page, call.playerid)
       IN  calls' = [calls EXCEPT ![c] =
              IF raise_for_status(r) THEN Raises(call, Raise("APIError", "Bad Gateway."))
              ELSE IF parsed.exc # NoExc
              THEN \* except Exception: raise BadArgument("Invalid playerid: " + playerid)
                   Raises(call, RaiseConcat("BadArgument", "Invalid playerid: ",
                                    [type |-> call.playerid.type,
                                     text |-> Join(call.playerid.chars)]))
              ELSE Returns(call, parsed.ret[1])]
    /\ UNCHANGED <<cacheState, started, outside>>

\* time passes
Tick ==
    /\ now + TickLen <= MaxTime
    /\ now' = now + TickLen
    /\ UNCHANGED <<kwVars, cacheVars, sessionVars, restVars>>

(***************************************************************************)
(* utils.py: async_expiring_cache.  The decorated function is called by    *)
(* two callers, each awaiting the task the wrapper returns.                *)
(*   cache    key -> [value: task, timestamp]                              *)
(*   tasks    the tasks made by asyncio.ensure_future, by number           *)
(*   log      the wrapper calls made so far                                *)
(*   waiters  what each caller is doing                                    *)
(* cancelling marks a caller, or a task, that cancel() was called on and   *)
(* that the event loop has not run since.                                  *)
(***************************************************************************)
seconds == 60
Waiters == {"w1", "w2"}
WaiterBefore(v, w) == v = "w1" /\ w = "w2"
MaxWrapperCalls == 2     \* wrapper calls per behaviour

\* argument values: a string, or a 2-tuple of strings
Atom(x) == [kind |-> "str", a |-> x, b |-> ""]
Tuple2(x, y) == [kind |-> "tuple", a |-> x, b |-> y]

\* kwargs.items(): one (name, value) tuple per keyword argument, in call order
items(kwargs) == [i \in 1..Len(kwargs) |-> Tuple2(kwargs[i][1], kwargs[i][2].a)]

\* key = (*args, *kwargs.items())
CacheKey(args, kwargs) == args \o items(kwargs)

\* the calls tried: f("a"), f(x="a"), f(("x", "a"))
WrapperInputs ==
    { [args |-> <<Atom("a")>>, kwargs |-> <<>>],
      [args |-> <<>>, kwargs |-> << <<"x", Atom("a")>> >>],
      [args |-> <<Tuple2("x", "a")>>, kwargs |-> <<>>] }

IdleWaiter == [pc |-> "idle", task |-> 0, cancelling |-> FALSE]

CacheInit ==
    /\ cache = <<>>
    /\ tasks = <<>>
    /\ log = <<>>
    /\ waiters = [w \in Waiters |-> IdleWaiter]

\* the cached entry is returned while time.time() < timestamp + seconds
EntryValidInclusive(entry, t) == t <= entry.timestamp + seconds
EntryValidUnlessFailed(entry, t) ==
    /\ t < entry.timestamp + seconds
    /\ tasks[entry.value].state \notin {"raised", "cancelled"}
EntryValid(entry, t) == t < entry.timestamp + seconds

\* how "await value" ends for a task that ended in the given state
Outcome(state) ==
    CASE state = "returned" -> "got"
      [] state = "raised" -> "raised"
      [] OTHER -> "cancelled"

\* value = wrapper(*args, **kwargs); await value
\* (callers differ in name only: the first call is made by the first of them).
\* Awaiting a task that has already ended does not suspend: the caller has
\* its outcome at once.
wrapper(w, args, kwargs) ==
    LET key == CacheKey(args, kwargs)
        cached == key \in DOMAIN cache /\ EntryValid(cache[key], now)
        value == IF cached THEN cache[key].value ELSE Len(tasks) + 1
    IN  /\ waiters[w].pc # "waiting"
        /\ \A v \in Waiters : WaiterBefore(v, w) => waiters[v].pc # "idle"
        /\ Len(log) < MaxWrapperCalls
        /\ IF cached
           THEN UNCHANGED <<cache, tasks>>
           ELSE /\ tasks' = Append(tasks, [state |-> "pending", args |-> args,
                                            kwargs |-> kwargs,
                                            cancelling |-> FALSE])
                /\ cache' = Put(cache, key, [value |-> value, timestamp |-> now])
        /\ log' = Append(log, [args |-> args, kwargs |-> kwargs, at |-> now,
                               invoked |-> ~cached, value |-> value])
        /\ waiters' = [waiters EXCEPT ![w] =
                          [pc |-> IF cached /\ tasks[value].state # "pending"
                                  THEN Outcome(tasks[value].state) ELSE "waiting",
                           task |-> value, cancelling |-> FALSE]]
        /\ UNCHANGED <<now, kwVars, sessionVars, restVars>>

\* the event loop runs the task to its end: the decorated coroutine returns
\* or raises, or, when cancel() was called on the task, CancelledError is
\* thrown into it and the task ends cancelled (the coroutine is taken not to
\* catch CancelledError)
TaskEnds(t, how) ==
    /\ t \in 1..Len(tasks)
    /\ tasks[t].state = "pending"
    /\ (how = "cancelled") = tasks[t].cancelling
    /\ tasks' = [tasks EXCEPT ![t].state = how, ![t].cancelling = FALSE]
    /\ UNCHANGED <<now, cache, log, waiters, kwVars, sessionVars, restVars>>

\* the event loop runs a caller whose task has ended: "await value" ends
\* with the task's result, its exception, or CancelledError when the task
\* was cancelled; a caller that cancel() was called on gets CancelledError
\* whatever the task ended with
Wakes(w) ==
    /\ waiters[w].pc = "waiting"
    /\ tasks[waiters[w].task].state # "pending"
    /\ waiters' = [waiters EXCEPT ![w] =
                      [pc |-> IF waiters[w].cancelling THEN "wait_cancelled"
                              ELSE Outcome(tasks[waiters[w].task].state),
                       task |-> waiters[w].task,
                       cancelling |-> FALSE]]
    /\ UNCHANGED <<now, cache, tasks, log, kwVars, sessionVars, restVars>>

\* cancel() is called on a caller suspended in "await value".  The wrapper
\* hands out the task itself (no shield), and cancel() on a coroutine that
\* awaits a future that has not ended calls cancel() on that future: the
\* request reaches the shared task.  Nothing ends in this step: the task
\* ends when the event loop runs it (TaskEnds), its callers when the loop
\* runs them after that (Wakes).
CancelWaiter(w) ==
    /\ waiters[w].pc = "waiting"
    /\ ~waiters[w].cancelling
    /\ waiters' = [waiters EXCEPT ![w].cancelling = TRUE]
    /\ tasks' = [tasks EXCEPT ![waiters[w].task].cancelling =
                    @ \/ tasks[waiters[w].task].state = "pending"]
    /\ UNCHANGED <<now, cache, log, kwVars, sessionVars, restVars>>

(***************************************************************************)
(* The parts of the state a specification does not exercise                *)
(***************************************************************************)
ScopeIdle == client = "open" /\ scope = "none" /\ closes = 0
ScoreIdle ==
    /\ scPc = "off"
    /\ scIn = [rank |-> None, score |-> None, total |-> None]
    /\ scOut = [exc |-> NoExc, ret |-> <<>>]
BoardIdle == heap = <<>> /\ boards = <<>>
PlayerIdle ==
    /\ pl = [beta |-> FALSE, playerid |-> IdNone,
             daily_quest |-> MISSING, skill_point |-> MISSING]
    /\ plog = <<>>
RestIdle == ScopeIdle /\ ScoreIdle /\ BoardIdle /\ PlayerIdle

InitCache ==
    /\ now = StartTime
    /\ KwIdle
    /\ CacheInit
    /\ SessionInit
    /\ RestIdle

NextCache ==
    \/ Tick
    \/ \E w \in Waiters :
        \/ \E in \in WrapperInputs : wrapper(w, in.args, in.kwargs)
        \/ Wakes(w)
        \/ CancelWaiter(w)
    \/ \E t \in 1..Len(tasks), how \in {"returned", "raised", "cancelled"} :
          TaskEnds(t, how)

SpecCache == InitCache /\ [][NextCache]_vars

(***************************************************************************)
(* SpecKwarg                                                               *)
(***************************************************************************)
CacheIdle == CacheInit

KwInit ==
    /\ now = StartTime
    /\ kwPc = "call"
    /\ kwIn \in KwInputs
    /\ kwOut = NoExc
    /\ CacheIdle
    /\ SessionInit
    /\ RestIdle

\* self._kwarg_check(mapname=..., playerid=..., mode=..., difficulty=...)
KwCheck ==
    /\ kwPc = "call"
    /\ kwOut' = _kwarg_check(kwIn.mapname, kwIn.playerid, kwIn.mode, kwIn.difficulty)
    /\ kwPc' = "checked"
    /\ UNCHANGED <<now, kwIn, cacheVars, sessionVars, restVars>>

KwNext == KwCheck

SpecKwarg == KwInit /\ [][KwNext]_vars

(***************************************************************************)
(* Spec: two callers use the cached operations of one Session concurrently *)
(***************************************************************************)
Init ==
    /\ now = StartTime
    /\ KwIdle
    /\ CacheIdle
    /\ SessionInit
    /\ RestIdle

ValidId == IdStr(BaseId)
CachedIds == {IdNone, ValidId}
DateInputs == {None}

Next ==
    \/ Tick
    \/ \E c \in Callers :
        \/ \E mode \in {Str("score"), Str("waves")}, p \in CachedIds :
              leaderboards(c, Str("1.1"), p, mode, Str("NORMAL"))
        \/ \E p \in CachedIds : skill_point_leaderboard(c, p)
        \/ \E d \in DateInputs, p \in CachedIds \cup {IdStr(<<>>)} :
              daily_quest_leaderboards(c, d, p, TRUE)
        \/ seasonal_leaderboard(c)
        \/ \E r \in PostResponses :
              \/ leaderboards_resume(c, r)
              \/ skill_point_leaderboard_resume(c, r)
              \/ daily_quest_leaderboards_resume(c, r)
        \/ \E r \in GetResponses : seasonal_leaderboard_resume(c, r)

Spec == Init /\ [][Next]_vars

(***************************************************************************)
(* SpecDispatch: one caller, every operation, arguments of every kind      *)
(***************************************************************************)
DispatchMaps == {Str("1.1"), Str("9.9"), Float("1.1"), Float("9.9"), None}
DispatchModes == {Str("score"), Str("Score"), None}
DispatchDifficulties == {Str("ENDLESS_I"), Str("HARD"), None}
DispatchIds == {IdNone, ValidId, IdStr(<<"U", "-", "1">>)}
DispatchDates ==
    { None, DateTime("2022-06-01"),
      Chars(<<"\\u0662","\\u0660","\\u0662","\\u0662","-","6","-"," ","1">>),
      Chars(<<"2","0","2","2","-","0","6","-","3","\\u0660">>),
      Chars(<<"2","0","2","2","-","0","2","-","3","0">>),
      Number("20220601") }

\* what the server may answer to getLeaderboardsRank: also numbers sent as
\* strings and without a total, and values that are no numbers
RankResponses ==
    PostResponses \cup
    { Response(200, "success", "",
               [score |-> Chars(<<"9","9","9","9">>), rank |-> Chars(<<"1">>),
                total |-> None], ""),
      Response(200, "success", "",
               [score |-> Chars(<<" ","\\u0664","\\u0662","\n">>), rank |-> Chars(<<"+","7">>),
                total |-> None], ""),
      Response(200, "success", "",
               [score |-> PInt(250), rank |-> Chars(<<"n","/","a">>), total |-> None], "") }

\* what the server may answer to a profile request: a page with every
\* region, one without the season-XP block whose level row is not ranked,
\* the page of an unknown id (no XP bar), and an error
ProfileResponses ==
    { Response(200, "", "", Unranked,
               Profile(TRUE, TRUE, TRUE, TRUE, <<Row("1.1", TRUE), Row("1.2", FALSE)>>)),
      Response(200, "", "", Unranked,
               Profile(TRUE, TRUE, FALSE, TRUE, <<Row("1.1", FALSE)>>)),
      Response(200, "", "", Unranked, Profile(TRUE, FALSE, FALSE, FALSE, <<>>)),
      Response(502, "", "", Unranked, Profile(FALSE, FALSE, FALSE, FALSE, <<>>)) }

DispatchArgs ==
    LET base == [mapname |-> Str("1.1"), playerid |-> ValidId,
                 mode |-> Str("score"), difficulty |-> Str("ENDLESS_I")]
    IN  {[base EXCEPT !.mapname = m] : m \in DispatchMaps}
        \cup {[base EXCEPT !.playerid = p] : p \in DispatchIds}
        \cup {[base EXCEPT !.mode = mo] : mo \in DispatchModes}
        \cup {[base EXCEPT !.difficulty = d] : d \in DispatchDifficulties}
        \cup {[mapname |-> Float("9.9"), playerid |-> p, mode |-> Str("Score"),
               difficulty |-> Str("HARD")] : p \in DispatchIds}

DispatchNext ==
    \/ Tick
    \/ \E a \in DispatchArgs :
        LET m == a.mapname  p == a.playerid  mo == a.mode  d == a.difficulty IN
          \/ leaderboards_rank("c1", m, p, mo, d)
          \/ leaderboards("c1", m, p, mo, d)
          \/ runtime_leaderboards("c1", m, p, mo, d)
    \/ \E p \in DispatchIds :
          \/ skill_point_leaderboard("c1", p)
          \/ daily_quest_leaderboards("c1", None, p, TRUE)
          \/ player("c1", p)
    \/ \E d \in DispatchDates :
          \E warning \in (IF d.type = "str" THEN BOOLEAN ELSE {TRUE}) :
              daily_quest_leaderboards("c1", d, IdNone, warning)
    \/ seasonal_leaderboard("c1")
    \/ \E r \in RankResponses : leaderboards_rank_resume("c1", r)
    \/ \E r \in PostResponses :
          \/ leaderboards_resume("c1", r)
          \/ runtime_leaderboards_resume("c1", r)
          \/ skill_point_leaderboard_resume("c1", r)
          \/ daily_quest_leaderboards_resume("c1", r)
    \/ \E r \in FewGetResponses : seasonal_leaderboard_resume("c1", r)
    \/ \E r \in ProfileResponses : player_resume("c1", r)

SpecDispatch == Init /\ [][DispatchNext]_vars

(***************************************************************************)
(* SpecScore: Score.__init__ applied to bounded rank, score and total      *)
(***************************************************************************)
ScoreInputs ==
    { PInt(3), PInt(0), PInt(-2), PFloat(27), PFloat(-27), None,
      Chars(<<"3">>), Chars(<<"1","5","0","0">>), Chars(<<"-","5">>),
      Chars(<<" ","\t","","7","\n","\\xa0">>), Chars(<<"1","_","0">>), Chars(<<"a","b","c">>),
      Chars(<<"3",".","5">>), Chars(<<>>),
      Chars(<<"\\u0664","\\u06f2">>), Chars(<<"","7">>) }

ScoreInit ==
    /\ now = StartTime
    /\ KwIdle /\ CacheIdle /\ SessionInit
    /\ ScopeIdle /\ BoardIdle /\ PlayerIdle
    /\ scPc = "call"
    /\ scIn \in [rank : ScoreInputs, score : ScoreInputs, total : {None, PInt(10)}]
    /\ scOut = [exc |-> NoExc, ret |-> <<>>]

\* Score("leaderboards", "1.1", "score", "NORMAL", playerid, rank, score, total=total)
ScoreBuild ==
    /\ scPc = "call"
    /\ scPc' = "built"
    /\ LET bad == Score_raises(scIn.rank, scIn.score, scIn.total)
       IN  scOut' = IF bad # NoExc THEN [exc |-> bad, ret |-> <<>>]
                    ELSE [exc |-> NoExc,
                          ret |-> <<Score("leaderboards", Str("1.1"), Str("score"),
                                          Str("NORMAL"), ValidId, scIn.rank, scIn.score,
                                          None, scIn.total)>>]
    /\ UNCHANGED <<now, scIn, kwVars, cacheVars, sessionVars, scopeVars, boardVars, playerVars>>

ScoreNext == ScoreBuild

SpecScore == ScoreInit /\ [][ScoreNext]_vars

(***************************************************************************)
(* SpecScope: the Session's ClientSession, close() and "async with"        *)
(***************************************************************************)
MaxCloses == 2       \* explicit close() calls per behaviour

ClientSession_close_Leaks(cl) == cl
\* await self._session.close(): the client is closed (closing twice is allowed)
ClientSession_close(cl) == "closed"

\* __aenter__: the scope of "async with Session() as s" is entered
aenter ==
    /\ scope = "none"
    /\ scope' = "inside"
    /\ UNCHANGED <<client, closes, now, kwVars, cacheVars, sessionVars,
                   scoreVars, boardVars, playerVars>>

\* __aexit__: the scope is left, normally or by an exception that an
\* operation inside it raised; either way __aexit__ awaits self.close()
aexit(how) ==
    /\ scope = "inside"
    /\ how = "raised" => \E c \in Callers : calls[c].pc = "done" /\ calls[c].exc # NoExc
    /\ scope' = "exited_" \o how
    /\ client' = ClientSession_close(client)
    /\ UNCHANGED <<closes, now, kwVars, cacheVars, sessionVars,
                   scoreVars, boardVars, playerVars>>

\* Session.close
close ==
    /\ closes < MaxCloses
    /\ closes' = closes + 1
    /\ client' = ClientSession_close(client)
    /\ UNCHANGED <<scope, now, kwVars, cacheVars, sessionVars,
                   scoreVars, boardVars, playerVars>>

ScopeNext ==
    \/ aenter
    \/ \E how \in {"normal", "raised"} : aexit(how)
    \/ close
    \/ seasonal_leaderboard("c1")
    \/ player("c1", ValidId)
    \/ \E r \in GetResponses : seasonal_leaderboard_resume("c1", r)
    \/ \E r \in ProfileResponses : player_resume("c1", r)

SpecScope == Init /\ [][ScopeNext]_vars

(***************************************************************************)
(* SpecPlayer: player.py.  pl is one Player object built by its            *)
(* constructor; plog records, for every operation on it, the Session       *)
(* argument, whether the server answers a request with a success, the      *)
(* requests made and the outcome.                                          *)
(***************************************************************************)
MaxPlayerOps == 3    \* operations on the Player per behaviour

\* bool(x) of a Player field: MISSING and None are falsy, a Score is truthy
bool(v) == v # MISSING /\ v # None

\* the keyword parameters of the Session methods a Player calls
Session_params(method) ==
    IF method = "daily_quest_leaderboards" THEN {"date", "playerid", "warning"}
    ELSE {"playerid"}

\* binding keyword arguments, in the order given, to a Session method (every
\* parameter has a default): the first keyword that is no parameter is reported
Session_binds(method, keys) ==
    IF Unexpected(keys, Session_params(method)) # <<>>
    THEN Raise("TypeError", "Session." \o method \o "() got an unexpected keyword argument '"
                               \o Unexpected(keys, Session_params(method))[1] \o "'")
    ELSE NoExc

\* a Session object passed to a fetch
ASession == [type |-> "Session"]

\* Leaderboard.player: None or the Score
Leaderboard_player(lb) == IF lb.player = <<>> THEN None ELSE lb.player[1]

PlayerOp(op, session, r, reqs, exc, ret) ==
    [op |-> op, session |-> session, healthy |-> session # None /\ _post(r) = NoExc,
     reqs |-> reqs, exc |-> exc, ret |-> ret]

PlayerInit ==
    /\ now = StartTime
    /\ KwIdle /\ CacheIdle /\ SessionInit
    /\ ScopeIdle /\ ScoreIdle /\ BoardIdle
    /\ \E beta \in BOOLEAN :
          pl = [beta |-> beta, playerid |-> ValidId,
                daily_quest |-> MISSING, skill_point |-> MISSING]
    /\ plog = <<>>

\* the properties Player.daily_quest and Player.skill_point
accessor(field) ==
    /\ Len(plog) < MaxPlayerOps
    /\ plog' = Append(plog,
                 IF pl[field] = MISSING
                 THEN PlayerOp(field, None, Response(200, "success", "", Ranked, ""), 0,
                               Raise("InfinitodeError", "This score has not been fetched yet. Use ~.fetch_"
                                                            \o field \o " first."),
                               <<>>)
                 ELSE PlayerOp(field, None, Response(200, "success", "", Ranked, ""), 0,
                               NoExc, <<pl[field]>>))
    /\ UNCHANGED <<pl, now, kwVars, cacheVars, sessionVars, scopeVars, scoreVars, boardVars>>

\* Player.fetch_daily_quest (field "daily_quest", method "daily_quest_leaderboards")
\* and Player.fetch_skill_point (field "skill_point", method
\* "skill_point_leaderboard"); session is None or a Session, r is what the
\* server answers when the Session is asked
fetch(field, method, mapname, session, r) ==
    /\ Len(plog) < MaxPlayerOps
    /\ LET op == "fetch_" \o field
           label == IF field = "daily_quest" THEN "daily quest" ELSE "skill point"
           bind == Session_binds(method, <<"playerid", "beta">>)
           exc == IF _post(r) # NoExc THEN _post(r)
                  ELSE Leaderboard_raises(pl.playerid, r)
           lb == Leaderboard_from_payload(1, method, Str(mapname), Str("score"),
                                          Str("NORMAL"), pl.playerid, r, None)
       IN  IF bool(pl[field])
           THEN /\ plog' = Append(plog, PlayerOp(op, session, r, 0, NoExc, <<pl[field]>>))
                /\ pl' = pl
           ELSE IF session = None
           THEN /\ plog' = Append(plog,
                             IF pl[field] = None
                             THEN PlayerOp(op, session, r, 0, NoExc, <<None>>)
                             ELSE PlayerOp(op, session, r, 0,
                                           Raise("InfinitodeError",
                                                 "You need to provide a Session to fetch the "
                                                     \o label \o " score."),
                                           <<>>))
                /\ pl' = pl
           ELSE IF bind # NoExc
           THEN /\ plog' = Append(plog, PlayerOp(op, session, r, 0, bind, <<>>))
                /\ pl' = pl
           ELSE IF exc # NoExc
           THEN /\ plog' = Append(plog, PlayerOp(op, session, r, 1, exc, <<>>))
                /\ pl' = pl
           ELSE /\ pl' = [pl EXCEPT ![field] = Leaderboard_player(lb)]
                /\ plog' = Append(plog, PlayerOp(op, session, r, 1, NoExc,
                                                 <<Leaderboard_player(lb)>>))
    /\ UNCHANGED <<now, kwVars, cacheVars, sessionVars, scopeVars, scoreVars, boardVars>>

daily_quest == accessor("daily_quest")
skill_point == accessor("skill_point")
fetch_daily_quest(session, r) ==
    fetch("daily_quest", "daily_quest_leaderboards", "DQ", session, r)
fetch_skill_point(session, r) ==
    fetch("skill_point", "skill_point_leaderboard", "SP", session, r)

PlayerNext ==
    \/ daily_quest
    \/ skill_point
    \/ \E session \in {None, ASession}, r \in PostResponses : fetch_daily_quest(session, r)
    \/ \E session \in {None, ASession}, r \in PostResponses : fetch_skill_point(session, r)

SpecPlayer == PlayerInit /\ [][PlayerNext]_vars

(***************************************************************************)
(* SpecBoard: leaderboard.py.  A Leaderboard holds a list object; heap     *)
(* gives the contents of each list object, so that two Leaderboards        *)
(* holding the same list would be seen to share it.                        *)
(***************************************************************************)
MaxScores == 3       \* entries of the response's leaderboards list
MaxBoards == 3       \* Leaderboard objects per behaviour

\* an optional index of a slice: <<>> is None
Index(i) == <<i>>
NoIndex == <<>>

Min(a, b) == IF a < b THEN a ELSE b
Max(a, b) == IF a > b THEN a ELSE b

\* slice.indices(n): start, stop and step as list slicing uses them
SliceStep(key) == IF key.step = NoIndex THEN 1 ELSE key.step[1]
SliceStart(key, n) ==
    IF SliceStep(key) > 0
    THEN (IF key.start = NoIndex THEN 0
          ELSE IF key.start[1] < 0 THEN Max(key.start[1] + n, 0)
          ELSE Min(key.start[1], n))
    ELSE (IF key.start = NoIndex THEN n - 1
          ELSE IF key.start[1] < 0 THEN Max(key.start[1] + n, -1)
          ELSE Min(key.start[1], n - 1))
SliceStop(key, n) ==
    IF SliceStep(key) > 0
    THEN (IF key.stop = NoIndex THEN n
          ELSE IF key.stop[1] < 0 THEN Max(key.stop[1] + n, 0)
          ELSE Min(key.stop[1], n))
    ELSE (IF key.stop = NoIndex THEN -1
          ELSE IF key.stop[1] < 0 THEN Max(key.stop[1] + n, -1)
          ELSE Min(key.stop[1], n - 1))

\* list[key] for a slice key: a new list of the elements at start,
\* start + step, ... short of stop (0-based positions)
RECURSIVE Walk(_, _, _, _)
Walk(list, at, stop, step) ==
    IF (step > 0 /\ at >= stop) \/ (step < 0 /\ at <= stop) THEN <<>>
    ELSE <<list[at + 1]>> \o Walk(list, at + step, stop, step)

list_getitem_StopInclusive(list, key) ==
    Walk(list, SliceStart(key, Len(list)),
         Min(SliceStop(key, Len(list)) + 1, Len(list)), SliceStep(key))

list_getitem(list, key) ==
    Walk(list, SliceStart(key, Len(list)), SliceStop(key, Len(list)), SliceStep(key))

\* the k-th entry of payload['leaderboards']
Entry(k) == [playerid |-> Str("P" \o ToString(k)), score |-> PInt(1000 - 100 * k)]

enumerate_from_zero(k) == k - 1
\* enumerate(payload['leaderboards'], start=1): the rank of the k-th entry
enumerate_from_one(k) == k

\* the Scores Leaderboard.from_payload appends, in order
from_payload_scores(method, mapname, mode, difficulty, entries) ==
    [k \in 1..Len(entries) |->
        Score(method, mapname, mode, difficulty, entries[k].playerid,
              PInt(enumerate_from_one(k)), entries[k].score, None, None)]

\* Leaderboard.__init__: the fields of a new Leaderboard (its list is empty)
Leaderboard(method, mapname, mode, difficulty, total, date, player_score, season) ==
    [method |-> method, mapname |-> mapname, mode |-> mode, difficulty |-> difficulty,
     total |-> int(total).val, date |-> date, player |-> player_score,
     season |-> IF season = None THEN None ELSE PInt(int(season).val)]

Meta(b) == [f \in {"method", "mapname", "mode", "difficulty", "total", "date",
                   "player", "season"} |-> b[f]]

\* a Leaderboard object: its fields, the list object it holds, and where it
\* came from (parent 0: from_payload; derived: only slices of positive step
\* and no _append lie between from_payload and it)
Board(fields, list, parent, derived) ==
    fields @@ [scores |-> list, parent |-> parent, derived |-> derived]

BoardInit ==
    /\ now = StartTime
    /\ KwIdle /\ CacheIdle /\ SessionInit
    /\ ScopeIdle /\ ScoreIdle /\ PlayerIdle
    /\ \E n \in 0..MaxScores :
          LET payload == [player |-> Ranked, leaderboards |-> [k \in 1..n |-> Entry(k)]]
              root == Leaderboard_from_payload(1, "leaderboards", Str("1.1"), Str("score"),
                                               Str("NORMAL"), ValidId, payload, None)
          IN  /\ heap = <<from_payload_scores("leaderboards", Str("1.1"), Str("score"),
                                              Str("NORMAL"), payload.leaderboards)>>
              /\ boards = <<Board(Leaderboard("leaderboards", Str("1.1"), Str("score"),
                                              Str("NORMAL"), payload.player.total, None,
                                              root.player, None),
                                  1, 0, TRUE)>>

\* Leaderboard.__getitem__ with a slice: a new Leaderboard with the fields of
\* this one, holding the new list self._scores[key]
getitem(b, key) ==
    /\ b \in 1..Len(boards)
    /\ Len(boards) < MaxBoards
    /\ SliceStep(key) # 0
    /\ LET self == boards[b]
           lb == Leaderboard(self.method, self.mapname, self.mode, self.difficulty,
                             PInt(self.total), self.date, self.player, self.season)
       IN  /\ heap' = Append(heap, list_getitem(heap[self.scores], key))
           /\ boards' = Append(boards, Board(lb, Len(heap) + 1, b,
                                              self.derived /\ SliceStep(key) > 0))
    /\ UNCHANGED <<now, kwVars, cacheVars, sessionVars, scopeVars, scoreVars, playerVars>>

\* a Score that is not in the response
Extra == Score("leaderboards", Str("1.1"), Str("score"), Str("NORMAL"), Str("P0"),
               PInt(0), PInt(0), None, None)

\* Leaderboard._append: self._scores.append(score)
_append(b, score) ==
    /\ b \in 1..Len(boards)
    /\ Len(heap[boards[b].scores]) < MaxScores
    /\ heap' = [heap EXCEPT ![boards[b].scores] = Append(@, score)]
    /\ boards' = [c \in 1..Len(boards) |->
                    IF boards[c].scores = boards[b].scores
                    THEN [boards[c] EXCEPT !.derived = FALSE] ELSE boards[c]]
    /\ UNCHANGED <<now, kwVars, cacheVars, sessionVars, scopeVars, scoreVars, playerVars>>

\* the slices tried: [i:j] for every i and j, and some with a step, with
\* negative indexes and with indexes left out
Slice(start, stop, step) == [start |-> start, stop |-> stop, step |-> step]
SliceKeys ==
    {Slice(Index(i), Index(j), NoIndex) : i, j \in 0..MaxScores}
    \cup { Slice(NoIndex, NoIndex, Index(2)), Slice(Index(1), NoIndex, Index(2)),
           Slice(NoIndex, NoIndex, Index(-1)), Slice(Index(-1), NoIndex, NoIndex),
           Slice(NoIndex, Index(-1), NoIndex) }

\* the scores of the response are only appended to by from_payload; here a
\* caller appends to the list of a slice, once
BoardNext ==
    \/ \E b \in 1..Len(boards), key \in SliceKeys : getitem(b, key)
    \/ \E b \in 1..Len(boards) :
          /\ boards[b].parent > 0
          /\ \A k \in 1..Len(heap[boards[b].scores]) : heap[boards[b].scores][k] # Extra
          /\ _append(b, Extra)

SpecBoard == BoardInit /\ [][BoardNext]_vars

\* the form U-AAAA-BBBB-CCCCCC of the specification: the whole string
IsPlayerIdForm(s) ==
    /\ Len(s) = 18
    /\ s[1] = "U"
    /\ \A i \in {2, 7, 12} : s[i] = "-"
    /\ \A i \in (3..6) \cup (8..11) \cup (13..18) : s[i] \in AlNum

KwOnlyPlayerid ==
    /\ kwPc = "checked"
    /\ kwIn.playerid # IdNone
    /\ kwIn.mapname = None /\ kwIn.mode = None /\ kwIn.difficulty = None

\* C2: player-identifier validation accepts exactly the strings of the form
\* U-AAAA-BBBB-CCCCCC and raises BadArgument for every other string,
\* extra characters before or after the pattern included.
C2_AcceptsExactlyTheForm ==
    KwOnlyPlayerid =>
        IF IsPlayerIdForm(kwIn.playerid.chars)
        THEN kwOut = NoExc
        ELSE kwOut # NoExc /\ kwOut[1].type = "BadArgument"

(***************************************************************************)
(* Claims about async_expiring_cache                                       *)
(***************************************************************************)
KeyOf(e) == CacheKey(e.args, e.kwargs)

\* the earlier invocations of the operation for the key of call j
PriorInvoked(j) ==
    {i \in 1..(j - 1) : log[i].invoked /\ KeyOf(log[i]) = KeyOf(log[j])}
Latest(S) == CHOOSE i \in S : \A k \in S : k <= i

\* the arguments of two calls are the same: positional ones in order,
\* keyword ones by name
SameArguments(e, f) ==
    /\ e.args = f.args
    /\ {e.kwargs[i] : i \in 1..Len(e.kwargs)} = {f.kwargs[i] : i \in 1..Len(f.kwargs)}

\* C3: a call with argument tuple k invokes the operation iff no entry for k
\* less than `seconds` old exists, and otherwise returns the stored handle;
\* an invocation overwrites the entry for k.
C3_InvokesIffNoFreshEntry ==
    /\ \A j \in 1..Len(log) :
          LET P == PriorInvoked(j) IN
          IF P # {} /\ log[j].at < log[Latest(P)].at + seconds
          THEN ~log[j].invoked /\ log[j].value = log[Latest(P)].value
          ELSE log[j].invoked /\ \A i \in 1..(j - 1) : log[i].value # log[j].value
    /\ Len(tasks) = Cardinality({j \in 1..Len(log) : log[j].invoked})
    /\ \A k \in DOMAIN cache :
          LET S == {i \in 1..Len(log) : log[i].invoked /\ KeyOf(log[i]) = k} IN
          /\ S # {}
          /\ cache[k] = [value |-> log[Latest(S)].value, timestamp |-> log[Latest(S)].at]

\* two calls with one key, the second exactly `seconds` after the first:
\* the operation is invoked again and the entry is overwritten
C3_Witness ==
    /\ Len(log) = 2
    /\ KeyOf(log[1]) = KeyOf(log[2])
    /\ log[1].invoked /\ log[2].invoked
    /\ log[2].at >= log[1].at + seconds
    /\ cache[KeyOf(log[2])] = [value |-> log[2].value, timestamp |-> log[2].at]
    /\ log[2].value # log[1].value

\* C4: two calls with different arguments never share a cache slot, for
\* every mix of positional and keyword passing.
C4_DifferentArgumentsNeverShare ==
    \A i, j \in 1..Len(log) :
        ~SameArguments(log[i], log[j]) => log[i].value # log[j].value

\* C7: when two callers wait on the same in-flight handle and one caller's
\* wait is cancelled, the shared operation is not cancelled: the cancel()
\* called on the one caller leaves the task as it was, and the task does not
\* end cancelled while a caller that was not cancelled waits on it.
C7_CancelledWaitLeavesTaskRunning ==
    [][/\ \A v, w \in Waiters :
            (/\ v # w
             /\ waiters[v].pc = "waiting"
             /\ ~waiters[v].cancelling /\ waiters'[v].cancelling
             /\ waiters[w].pc = "waiting" /\ ~waiters[w].cancelling
             /\ waiters[w].task = waiters[v].task
             /\ tasks[waiters[v].task].state = "pending")
            => tasks'[waiters[v].task] = tasks[waiters[v].task]
       /\ \A t \in 1..Len(tasks) :
            (tasks[t].state = "pending" /\ tasks'[t].state = "cancelled")
            => ~\E w \in Waiters :
                   /\ waiters[w].pc = "waiting" /\ waiters[w].task = t
                   /\ ~waiters[w].cancelling
      ]_vars

(***************************************************************************)
(* Claims about the Session                                                *)
(***************************************************************************)
TripleOps == {"leaderboards_rank", "leaderboards", "runtime_leaderboards"}
PlayerCachedOps == {"leaderboards", "skill_point_leaderboard", "daily_quest_leaderboards"}

HttpMethod(op) == IF op \in {"player", "seasonal_leaderboard"} THEN "GET" ELSE "POST"

\* a value given for the argument and outside its enumerated set
\* (a map is named by str(mapname): 1.1 names the level "1.1")
OutsideLevels(v) == v # None /\ str(v) \notin LEVELS
OutsideModes(v) == v # None /\ v.text \notin MODES
OutsideDifficulties(v) == v # None /\ v.text \notin DIFFICULTIES

\* the validation the operation applies to the arguments of a call
Validation(call) ==
    IF call.op \in TripleOps
    THEN _kwarg_check(call.mapname, call.playerid, call.mode, call.difficulty)
    ELSE IF call.op = "seasonal_leaderboard" THEN NoExc
    ELSE IF call.op = "daily_quest_leaderboards"
            /\ normalize_date(call.date, call.warning, StartTime).exc # NoExc
    THEN normalize_date(call.date, call.warning, StartTime).exc
    ELSE _kwarg_check(None, call.playerid, None, None)

StoredAfter(op, key) ==
    StoredIn(Leaderboards', DailyQuestLeaderboards', SkillPointLeaderboard', seasonal', op, key)
StampAfter(op, key) == StampIn(cooldown', op, key)

Begins(c) == calls[c].pc # "await" /\ calls'[c].n # calls[c].n
Completes(c) == calls[c].pc = "await" /\ calls'[c].pc = "done"
Anonymous(call) == call.op \in CachedOps /\ call.playerid = IdNone

\* C1: leaderboards_rank, leaderboards and runtime_leaderboards, in every
\* cache state: a mapname outside the level set, a mode outside {score, waves}
\* or a difficulty outside {EASY, NORMAL, ENDLESS_I} raises BadArgument and
\* the call issues no request.
C1_InvalidArgumentRaisesBadArgument ==
    \A c \in Callers :
        LET call == calls[c] IN
        (/\ call.pc # "idle"
         /\ call.op \in TripleOps
         /\ \/ OutsideLevels(call.mapname)
            \/ OutsideModes(call.mode)
            \/ OutsideDifficulties(call.difficulty))
        => /\ call.pc = "done"
           /\ call.exc # NoExc
           /\ call.exc[1].type = "BadArgument"
           /\ call.reqs = <<>>

\* C5 as amended: an anonymous call of a cached operation whose key has a
\* result stored less than 60 seconds ago returns that stored Leaderboard and
\* issues no request; a call made 60 seconds or more after the result was
\* stored (or with none stored) issues one request; when the call then
\* returns a Leaderboard, that Leaderboard and the time of its return replace
\* the stored result and its timestamp; when it raises instead, the stored
\* results and the timestamps stay as they were.
C5_AnonymousCooldown ==
    [][\A c \in Callers :
        LET call == calls'[c]
            fresh == /\ StoredFor(call.op, call.key) # <<>>
                     /\ now < StampFor(call.op, call.key) + 60
        IN  /\ (Begins(c) /\ Anonymous(call)) =>
                  IF fresh
                  THEN /\ call.pc = "done"
                       /\ call.ret = StoredFor(call.op, call.key)
                       /\ call.reqs = <<>>
                  ELSE /\ call.pc = "await"
                       /\ Len(call.reqs) = 1
            /\ (Completes(c) /\ Anonymous(call) /\ call.exc = NoExc) =>
                  /\ call.ret # <<>>
                  /\ StoredAfter(call.op, call.key) = call.ret
                  /\ StampAfter(call.op, call.key) = now
            /\ (Completes(c) /\ Anonymous(call) /\ call.exc # NoExc) =>
                  /\ call.ret = <<>>
                  /\ UNCHANGED cacheState
      ]_vars

\* C5 as stated: the call made 60 seconds or more after the result was
\* stored replaces the stored result and its timestamp, whatever the response.
C5_StaleCallAlwaysReplaces ==
    [][\A c \in Callers :
        LET call == calls'[c]
        IN  (/\ Completes(c) /\ Anonymous(call)
             /\ StoredFor(call.op, call.key) # <<>>
             /\ now >= StampFor(call.op, call.key) + 60) =>
                  /\ StoredAfter(call.op, call.key) = call.ret
                  /\ StampAfter(call.op, call.key) = now
      ]_vars

\* a call stored its result; the next call of the key found that result
\* stored 60 seconds ago or earlier, issued its request, and the Leaderboard
\* it returned is now the stored one, stamped with the time of its return
C5_Witness ==
    \E c, d \in Callers :
        /\ c # d /\ calls[c].n < calls[d].n
        /\ calls[c].pc = "done" /\ calls[d].pc = "done"
        /\ Anonymous(calls[c]) /\ Anonymous(calls[d])
        /\ calls[c].op = calls[d].op /\ calls[c].key = calls[d].key
        /\ calls[c].ret # <<>> /\ ~calls[c].hit
        /\ calls[d].age >= 60 /\ Len(calls[d].reqs) = 1 /\ ~calls[d].hit
        /\ calls[d].ret # <<>> /\ calls[d].ret # calls[c].ret
        /\ StoredFor(calls[d].op, calls[d].key) = calls[d].ret
        /\ StampFor(calls[d].op, calls[d].key) = now

\* C6: two concurrent calls of one operation with the same cache key trigger
\* at most one outbound request.
C6_NoDuplicateRequests ==
    \A c, d \in Callers :
        (/\ c # d
         /\ Anonymous(calls[c]) /\ Anonymous(calls[d])
         /\ calls[c].op = calls[d].op /\ calls[c].key = calls[d].key
         /\ calls[c].pc = "await")
        => calls[d].reqs = <<>>

\* C8: a call of leaderboards, skill_point_leaderboard or
\* daily_quest_leaderboards that supplies a player id always issues a request,
\* never returns a cached leaderboard, and never stores its result nor
\* changes a cooldown timestamp, whatever the response says about the player.
C8_PlayerCallsLeaveCacheAlone ==
    [][\A c \in Callers :
        LET call == calls'[c]
        IN  (/\ call.op \in PlayerCachedOps
             /\ call.playerid # IdNone
             /\ Validation(call) = NoExc) =>
                /\ Begins(c) => (call.pc = "await" /\ Len(call.reqs) = 1 /\ ~call.hit)
                /\ Completes(c) => UNCHANGED cacheState
      ]_vars

\* C9: an operation that passes validation and is not served from the cache
\* issues exactly one request, POST for the API operations and GET for the
\* profile and seasonal pages, before it returns or raises; nothing is retried.
C9_ExactlyOneRequest ==
    \A c \in Callers :
        LET call == calls[c] IN
        /\ (call.pc = "done" /\ Validation(call) = NoExc /\ ~call.hit)
              => call.reqs = <<HttpMethod(call.op)>>
        /\ call.pc = "await" => call.reqs = <<HttpMethod(call.op)>>
        /\ (call.pc = "done" /\ (Validation(call) # NoExc \/ call.hit))
              => call.reqs = <<>>

\* a call whose only request failed has ended with that one request
C9_Witness ==
    \E c \in Callers :
        /\ calls[c].pc = "done"
        /\ calls[c].resp # <<>> /\ raise_for_status(calls[c].resp[1])
        /\ calls[c].exc # NoExc
        /\ calls[c].reqs = <<HttpMethod(calls[c].op)>>

\* C10: a non-2xx response and a 2xx response whose status is not "success"
\* surface as errors of different types.
C10_DistinctErrorKinds ==
    \A c, d \in Callers :
        (/\ calls[c].pc = "done" /\ calls[c].resp # <<>>
         /\ calls[d].pc = "done" /\ calls[d].resp # <<>>
         /\ HttpMethod(calls[c].op) = "POST" /\ HttpMethod(calls[d].op) = "POST"
         /\ raise_for_status(calls[c].resp[1])
         /\ ~raise_for_status(calls[d].resp[1]) /\ calls[d].resp[1].status # "success")
        => /\ calls[c].exc # NoExc /\ calls[d].exc # NoExc
           /\ calls[c].exc[1].type # calls[d].exc[1].type

\* the request of an operation failed: a non-2xx response, or (JSON
\* operations) a payload whose status is not "success"
Failed(op, r) ==
    \/ raise_for_status(r)
    \/ HttpMethod(op) = "POST" /\ r.status # "success"

\* C11: when the request of a Session operation fails, the error is raised
\* to the caller and the stored leaderboards and cooldown timestamps are
\* exactly what they were: nothing is created, replaced or re-stamped.
C11_FailedRequestLeavesCacheAlone ==
    [][\A c \in Callers :
        (Completes(c) /\ Failed(calls'[c].op, calls'[c].resp[1])) =>
            /\ calls'[c].exc # NoExc
            /\ calls'[c].exc[1].type = "APIError"
            /\ calls'[c].ret = <<>>
            /\ UNCHANGED cacheState
      ]_vars

\* a call failed while a result stored by an earlier call was in the cache
C11_Witness ==
    \E c \in Callers :
        /\ calls[c].pc = "done" /\ calls[c].resp # <<>>
        /\ Failed(calls[c].op, calls[c].resp[1])
        /\ calls[c].exc # NoExc
        /\ StoredFor(calls[c].op, calls[c].key) # <<>>
        /\ StampFor(calls[c].op, calls[c].key) >= StartTime

\* C12: date normalization in daily_quest_leaderboards never raises, for
\* every date argument: no date or an unparsable string becomes the current
\* UTC date, a datetime is formatted, a string that parses is kept; the
\* warning is emitted exactly when the string is unparsable and the warning
\* flag is true; the call then goes on to the cache lookup and the request
\* (a player id is validated on the way).
C12_DateNormalizationIsSoft ==
    [][\A c \in Callers :
        LET call == calls'[c]
            today == utcnow_date(now)
            unparsable == call.date.type = "str" /\ ~Parsable(call.date.chars)
            parsable == call.date.type = "str" /\ Parsable(call.date.chars)
            badid == IF call.playerid = IdNone THEN NoExc
                     ELSE _kwarg_check(None, call.playerid, None, None)
        IN  (Begins(c) /\ call.op = "daily_quest_leaderboards") =>
                /\ call.exc = badid
                /\ (call.date = None \/ unparsable) => call.key = today
                /\ (call.date.type = "datetime" \/ parsable) => call.key = call.date.text
                /\ call.warned = (unparsable /\ call.warning)
                /\ badid = NoExc =>
                      \/ call.pc = "await" /\ call.reqs = <<"POST">>
                      \/ call.pc = "done" /\ call.hit
                             /\ call.ret = <<DailyQuestLeaderboards[call.key]>>
      ]_vars

\* C14: every Score that is successfully constructed has an integer rank
\* >= 0 and an integer score >= 0; a payload value that is not a
\* non-negative integer never yields a Score with a negative rank or score.
C14_ScoreIsNonNegative ==
    (scPc = "built" /\ scOut.exc = NoExc) =>
        /\ scOut.ret[1].rank >= 0
        /\ scOut.ret[1].score >= 0

\* the integer value of each value that a response carries as rank or score
\* and that has one ("n/a" has none)
PayloadIntegers ==
    { <<PInt(1500), 1500>>, <<PInt(3), 3>>, <<PInt(0), 0>>, <<PInt(250), 250>>,
      <<Chars(<<"1">>), 1>>, <<Chars(<<"9","9","9","9">>), 9999>>,
      <<Chars(<<"+","7">>), 7>>,
      <<Chars(<<" ","\\u0664","\\u0662","\n">>), 42>> }
HasInteger(v) == \E p \in PayloadIntegers : p[1] = v
IntegerOf(v) == (CHOOSE p \in PayloadIntegers : p[1] = v)[2]

\* C16: leaderboards_rank with valid arguments and a 2xx response
\* {"status": "success", "player": {"rank": "1", "score": "9999"}} returns a
\* Score with rank 1 and score 9999, method "leaderboards_rank" and the
\* mapname, mode, difficulty and playerid of the call; in general rank and
\* score are the integer values of the payload's player.rank and player.score.
C16_RankScoreFromPayload ==
    \A c \in Callers :
        LET call == calls[c] IN
        (/\ call.op = "leaderboards_rank" /\ call.pc = "done" /\ call.resp # <<>>
         /\ ~Failed(call.op, call.resp[1])
         /\ HasInteger(call.resp[1].player.rank)
         /\ HasInteger(call.resp[1].player.score)) =>
            /\ call.exc = NoExc
            /\ call.ret # <<>>
            /\ call.ret[1].cls = "Score"
            /\ call.ret[1].rank = IntegerOf(call.resp[1].player.rank)
            /\ call.ret[1].score = IntegerOf(call.resp[1].player.score)
            /\ call.ret[1].method = "leaderboards_rank"
            /\ call.ret[1].mapname = call.mapname
            /\ call.ret[1].mode = call.mode
            /\ call.ret[1].difficulty = call.difficulty
            /\ call.ret[1].playerid = call.playerid
            /\ (/\ call.resp[1].player.rank = Chars(<<"1">>)
                /\ call.resp[1].player.score = Chars(<<"9","9","9","9">>)) =>
                   call.ret[1].rank = 1 /\ call.ret[1].score = 9999

\* the call answered with rank "1" and score "9999" has returned its Score
C16_Witness ==
    \E c \in Callers :
        /\ calls[c].op = "leaderboards_rank" /\ calls[c].pc = "done"
        /\ calls[c].resp # <<>>
        /\ calls[c].resp[1].player.rank = Chars(<<"1">>)
        /\ calls[c].resp[1].player.score = Chars(<<"9","9","9","9">>)
        /\ calls[c].ret # <<>>
        /\ calls[c].ret[1].rank = 1 /\ calls[c].ret[1].score = 9999
        /\ calls[c].ret[1].method = "leaderboards_rank"
        /\ calls[c].ret[1].playerid = calls[c].playerid

Ranks(list) == [k \in 1..Len(list) |-> list[k].rank]

\* C13: slicing a Leaderboard with [i:j] yields a new Leaderboard whose
\* scores are the parent's scores at positions i..j-1, in order and with their
\* ranks, and whose method, mapname, mode, difficulty, total, date, season and
\* player are the parent's; the parent's scores are unchanged by the slice
\* and by later changes to the slice's score list.
C13_SliceIsSubsequence ==
    [][/\ \A b \in 1..Len(boards), i, j \in 0..MaxScores :
            (/\ Len(boards') > Len(boards)
             /\ boards'[Len(boards')].parent = b
             /\ getitem(b, Slice(Index(i), Index(j), NoIndex))) =>
                LET parent == heap[boards[b].scores]
                    new == boards'[Len(boards')]
                IN  /\ Len(boards') = Len(boards) + 1
                    /\ heap'[new.scores] = SubSeq(parent, i + 1, Min(j, Len(parent)))
                    /\ Meta(new) = Meta(boards[b])
                    /\ \A c \in 1..Len(boards) :
                          /\ boards'[c] = boards[c]
                          /\ heap'[boards[c].scores] = heap[boards[c].scores]
       /\ \A b \in 1..Len(boards) :
            (heap'[boards[b].scores] # heap[boards[b].scores] /\ _append(b, Extra)) =>
                \A c \in 1..Len(boards) :
                    c # b => heap'[boards[c].scores] = heap[boards[c].scores]
      ]_vars

\* a board of at least three scores was sliced [1:3]: the slice has the
\* scores ranked 2 and 3, later got one more score, and the parent still has
\* its scores ranked 1, 2, 3
C13_Witness ==
    \E b \in 1..Len(boards) :
        /\ boards[b].parent = 1
        /\ Ranks(heap[boards[b].scores]) = <<2, 3, 0>>
        /\ Ranks(heap[boards[1].scores]) = <<1, 2, 3>>
        /\ Meta(boards[b]) = Meta(boards[1])

\* C19: from_payload gives the k-th entry of the response rank k, so a built
\* Leaderboard of N scores has the ranks 1..N in order; and in every
\* Leaderboard reached from it by slices of positive step the ranks are
\* strictly increasing along the sequence.
C19_RanksFollowOrder ==
    \A b \in 1..Len(boards) :
        LET ranks == Ranks(heap[boards[b].scores]) IN
        boards[b].derived =>
            /\ boards[b].parent = 0 => ranks = [k \in 1..Len(ranks) |-> k]
            /\ \A k \in 1..(Len(ranks) - 1) : ranks[k] < ranks[k + 1]

\* a slice of a slice, both of positive step, holds more than one score
C19_Witness ==
    \E b \in 1..Len(boards) :
        /\ boards[b].derived
        /\ boards[b].parent > 1
        /\ Len(heap[boards[b].scores]) >= 2
        /\ Len(heap[boards[1].scores]) = MaxScores

\* C15: Session.player, given a 2xx profile page that has the nickname, the
\* XP bar and the footer table but no season-XP block, returns a Player with
\* season_level 1, season_xp 0 and season_xp_max 500, and every level row
\* marked "not ranked" is in the Player as a Score with rank 0, score 0,
\* total 0 and top "-%".
C15_ProfileWithoutSeasonBlock ==
    \A c \in Callers :
        LET call == calls[c] IN
        (/\ call.op = "player" /\ call.pc = "done" /\ call.resp # <<>>
         /\ ~raise_for_status(call.resp[1])
         /\ call.resp[1].page.nickname /\ call.resp[1].page.xp /\ call.resp[1].page.footer
         /\ ~call.resp[1].page.season) =>
            /\ call.exc = NoExc /\ call.ret # <<>>
            /\ call.ret[1].season_level = 1
            /\ call.ret[1].season_xp = 0
            /\ call.ret[1].season_xp_max = 500
            /\ \A k \in 1..Len(call.resp[1].page.rows) :
                  LET row == call.resp[1].page.rows[k] IN
                  ~row.ranked =>
                      /\ call.ret[1].levels[row.level].rank = 0
                      /\ call.ret[1].levels[row.level].score = 0
                      /\ call.ret[1].levels[row.level].total = <<0>>
                      /\ call.ret[1].levels[row.level].top = Str("-%")

\* C18: the Session's HTTP client is released on every exit path: after an
\* explicit close(), and after leaving an "async with" scope normally or
\* because an operation inside raised, the client is closed, whatever
\* operations ran inside the scope.
C18_ClientReleased ==
    (closes > 0 \/ scope \in {"exited_normal", "exited_raised"}) => client = "closed"

\* the scope was left by the exception of an operation, and the client is closed
C18_Witness ==
    /\ scope = "exited_raised"
    /\ closes = 0
    /\ client = "closed"
    /\ \E c \in Callers : calls[c].exc # NoExc /\ calls[c].reqs # <<>>

Fetches(field) ==
    { i \in DOMAIN plog : plog[i].op = "fetch_" \o field /\ plog[i].healthy }

\* C17: after fetch_daily_quest(session) or fetch_skill_point(session) was
\* called with a Session whose request succeeds, the field is no longer
\* "not yet attempted" (it is None or a Score) and every later read of the
\* accessor returns it without raising.
C17_FetchResolvesField ==
    \A field \in {"daily_quest", "skill_point"} : \A i \in Fetches(field) :
        /\ pl[field] # MISSING
        /\ \A j \in DOMAIN plog :
              (j > i /\ plog[j].op = field) =>
                  plog[j].exc = NoExc /\ plog[j].ret = <<pl[field]>>

\* C20: once a fetch with a Session whose request succeeds was made, every
\* later fetch of the same score, with or without a Session, makes no
\* request and returns the stored value.
C20_LaterFetchReturnsStored ==
    \A field \in {"daily_quest", "skill_point"} : \A i \in Fetches(field) :
        \A j \in DOMAIN plog :
            (j > i /\ plog[j].op = "fetch_" \o field) =>
                /\ plog[j].reqs = 0
                /\ plog[j].exc = NoExc
                /\ plog[j].ret = <<pl[field]>>

StampedKeys ==
    DOMAIN cooldown.Leaderboards \cup DOMAIN cooldown.DailyQuestLeaderboards \cup {""}

\* C21: in every reachable state of a Session, whenever the cooldown
\* timestamp of a cached operation and key is fresh (now < timestamp + 60),
\* the matching stored Leaderboard exists, and no call that was answered
\* without a request has ended with a missing-entry error (KeyError,
\* AttributeError).
C21_FreshStampHasEntry ==
    /\ \A op \in CachedOps, key \in StampedKeys :
          InCooldown(StampFor(op, key), now) => StoredFor(op, key) # <<>>
    /\ \A c \in Callers :
          (calls[c].exc # NoExc /\ calls[c].reqs = <<>>)
          => calls[c].exc[1].type \notin {"KeyError", "AttributeError"}

\* the stamp of a key is fresh with its entry stored, and a call with that
\* key was served from the cache without an error
C21_Witness ==
    \E key \in DOMAIN cooldown.Leaderboards, c \in Callers :
        /\ InCooldown(cooldown.Leaderboards[key], now)
        /\ key \in DOMAIN Leaderboards
        /\ calls[c].pc = "done" /\ calls[c].hit /\ calls[c].key = key
        /\ calls[c].exc = NoExc /\ calls[c].ret = <<Leaderboards[key]>>

\* the task of the entry for key has ended by raising or by cancellation
FailedEntry(key) ==
    /\ key \in DOMAIN cache
    /\ tasks[cache[key].value].state \in {"raised", "cancelled"}

\* C22: the window of async_expiring_cache applies to the attempt, not to
\* its outcome: a call whose key has an entry less than `seconds` old, the
\* task of which raised or was cancelled, starts no new task, leaves the
\* entry as it is and receives that same failed task, so that its await
\* ends at once with the task's failure; a woken caller gets the outcome of
\* the task it was handed.
C22_WindowCoversFailedAttempt ==
    [][/\ Len(log') = Len(log) + 1
          => LET e == log'[Len(log')]
                 key == KeyOf(e)
             IN  (FailedEntry(key) /\ now < cache[key].timestamp + seconds)
                 => /\ ~e.invoked
                    /\ e.value = cache[key].value
                    /\ tasks' = tasks /\ cache' = cache
                    /\ \E w \in Waiters :
                          /\ waiters[w].pc # "waiting"
                          /\ waiters'[w] = [pc |-> tasks[cache[key].value].state,
                                            task |-> cache[key].value,
                                            cancelling |-> FALSE]
       /\ \A w \in Waiters :
             (waiters[w].pc = "waiting" /\ waiters'[w].pc \in {"got", "raised", "cancelled"})
             => waiters'[w].pc = Outcome(tasks[waiters[w].task].state)
      ]_vars

\* one caller called twice within the window: its first call started the
\* task, the task raised, the second call was handed the same task and
\* ended with the task's exception
C22_Witness ==
    /\ Len(log) = 2 /\ Len(tasks) = 1
    /\ log[1].invoked /\ ~log[2].invoked
    /\ log[2].value = log[1].value
    /\ log[2].at < log[1].at + seconds
    /\ tasks[1].state = "raised"
    /\ \E w \in Waiters :
          /\ waiters[w] = [pc |-> "raised", task |-> 1, cancelling |-> FALSE]
          /\ \A v \in Waiters \ {w} : waiters[v].pc = "idle"

\* C23: the outcome of argument validation in daily_quest_leaderboards does
\* not depend on the cache: a call whose playerid is supplied (not None) and
\* does not match the player-id pattern, the empty string included, ends
\* with BadArgument and returns no Leaderboard, whether or not a fresh entry
\* for the date is cached.
C23_ValidationIgnoresCache ==
    \A c \in Callers :
        (/\ calls[c].op = "daily_quest_leaderboards"
         /\ calls[c].playerid.type = "str"
         /\ ~re_match(ID_REGEX, calls[c].playerid.chars))
        => /\ calls[c].pc = "done"
           /\ calls[c].exc # NoExc
           /\ calls[c].exc[1].type = "BadArgument"
           /\ calls[c].ret = <<>>
           /\ ~calls[c].hit

====
